---------------------------- MODULE Spec2Model ----------------------------
(***************************************************************************)
(* A model of the zoo simulation of src/zoo_simulator.cpp: the Zoo         *)
(* aggregate (cash, food, popularity, animals, enclosures, workers, loans, *)
(* market), the menu handlers that mutate it, the day transition           *)
(* Zoo::nextDay and the turn loop Zoo::playGame.                           *)
(*                                                                         *)
(* Representation.                                                         *)
(*  - money is a double in the source; every amount the model moves is an  *)
(*    integer (loan terms are drawn so that the daily repayment is         *)
(*    integral), so money is an integer here.                              *)
(*  - popularity is a double; it is kept in fixed point, in units of       *)
(*    1/PopScale, the product of the daily rescaling being truncated to    *)
(*    that resolution.                                                     *)
(*  - weight is a double; it is kept in units of 1/WeightScale kg.         *)
(*  - rand() is an input: every draw of the source is a parameter of the   *)
(*    action that makes it, and each specification names the sets the      *)
(*    draws come from.                                                     *)
(*  - species labels are transliterated, one character per letter of the   *)
(*    source's label (the program runs under code page 1251, one byte per  *)
(*    letter).  Display names and parent names are display-only text and   *)
(*    are not part of the state.                                           *)
(*  - lastOp is the console output of the last handler that went through:  *)
(*    which operation it was, what was entered, and what it reported.  A   *)
(*    handler that declines prints its reason and leaves every variable    *)
(*    as it was.                                                           *)
(***************************************************************************)
EXTENDS Integers, Sequences, FiniteSets, TLC

VARIABLES
    money,               \* Zoo::money
    food,                \* Zoo::food
    popularity,          \* Zoo::popularity, in 1/PopScale
    animals,             \* Zoo::animals, the registry
    enclosures,          \* Zoo::enclosures, each with its own copies of its residents
    workers,             \* Zoo::workers
    loans,               \* Zoo::loans
    day,                 \* Zoo::day
    visitors,            \* Zoo::visitors
    totalAnimals,        \* Zoo::totalAnimals
    specialVisitorType,  \* Zoo::specialVisitorType
    specialVisitorCount, \* Zoo::specialVisitorCount
    marketAnimals,       \* Zoo::marketAnimals
    animalsBoughtToday,  \* Zoo::animalsBoughtToday
    nextId,              \* Animal::nextId
    phase,               \* position of Zoo::playGame: "playing", "lost" or "won"
    lastOp               \* console output of the last handler that went through

vars == <<money, food, popularity, animals, enclosures, workers, loans, day,
          visitors, totalAnimals, specialVisitorType, specialVisitorCount,
          marketAnimals, animalsBoughtToday, nextId, phase, lastOp>>

zooVars == <<money, food, popularity, animals, enclosures, workers, loans, day,
             visitors, totalAnimals, specialVisitorType, specialVisitorCount,
             marketAnimals, animalsBoughtToday, nextId>>

---------------------------------------------------------------------------
(* Enumerations and fixed tables                                           *)

AnimalType == {"HERBIVORE", "CARNIVORE"}

Climate == {"TROPICAL", "TEMPERATE", "ARCTIC"}

Gender == {"MALE", "FEMALE"}

WorkerType == {"DIRECTOR", "VETERINARIAN", "CLEANER", "FEEDER"}

PopScale == 100

WeightScale == 64

maxDays == 20

VetMaxAnimals == 20

RefreshFee == 50

FoodPrice == 2

AdStep == 200

AdGain == 5

MarketSize == 10

Min(a, b) == IF a < b THEN a ELSE b

Range(s) == {s[i] : i \in DOMAIN s}

RECURSIVE SumSeq(_)
SumSeq(s) == IF s = <<>> THEN 0 ELSE Head(s) + SumSeq(Tail(s))

\* A division that rounds a positive quotient to the nearest integer.
CDiv_Nearest(a, b) == IF a >= 0 THEN (2 * a + b) \div (2 * b) ELSE -((-a) \div b)

\* Truncating division of C++ (rounds toward zero) for a positive divisor.
CDiv(a, b) == IF a >= 0 THEN a \div b ELSE -((-a) \div b)

\* Worker::getSalaryForType with a director paid 50 a day.
getSalaryForType_Cheap(t) ==
    CASE t = "DIRECTOR" -> 50
      [] t = "VETERINARIAN" -> 50
      [] t = "CLEANER" -> 30
      [] t = "FEEDER" -> 40
      [] OTHER -> 0

\* Worker::getSalaryForType
getSalaryForType(t) ==
    CASE t = "DIRECTOR" -> 60
      [] t = "VETERINARIAN" -> 50
      [] t = "CLEANER" -> 30
      [] t = "FEEDER" -> 40
      [] OTHER -> 0

\* The ten species templates of Zoo::getAvailableAnimals, in source order.
Catalog == <<
    [species |-> "Olen'",        ageDays |-> 10, weight |-> 200,  preferredClimate |-> "TEMPERATE", price |-> 150, type |-> "HERBIVORE"],
    [species |-> "Slon",         ageDays |-> 15, weight |-> 6000, preferredClimate |-> "TROPICAL",  price |-> 350, type |-> "HERBIVORE"],
    [species |-> "Ziraf",        ageDays |-> 12, weight |-> 1800, preferredClimate |-> "TROPICAL",  price |-> 300, type |-> "HERBIVORE"],
    [species |-> "Zebra",        ageDays |-> 8,  weight |-> 400,  preferredClimate |-> "TROPICAL",  price |-> 200, type |-> "HERBIVORE"],
    [species |-> "Krolik",       ageDays |-> 3,  weight |-> 5,    preferredClimate |-> "TEMPERATE", price |-> 100, type |-> "HERBIVORE"],
    [species |-> "Lev",          ageDays |-> 10, weight |-> 300,  preferredClimate |-> "TROPICAL",  price |-> 400, type |-> "CARNIVORE"],
    [species |-> "Volk",         ageDays |-> 7,  weight |-> 150,  preferredClimate |-> "TEMPERATE", price |-> 250, type |-> "CARNIVORE"],
    [species |-> "Belyj medved'", ageDays |-> 14, weight |-> 800,  preferredClimate |-> "ARCTIC",    price |-> 450, type |-> "CARNIVORE"],
    [species |-> "Tigr",         ageDays |-> 9,  weight |-> 350,  preferredClimate |-> "TROPICAL",  price |-> 350, type |-> "CARNIVORE"],
    [species |-> "Lisica",       ageDays |-> 5,  weight |-> 100,  preferredClimate |-> "TEMPERATE", price |-> 200, type |-> "CARNIVORE"] >>

\* Animal::Animal: the record of one animal.  uniqueId is Animal::nextId at
\* construction; copies keep it.
Animal(sp, age, w, c, p, t, g, born, encId, daysPurch, sick, id) ==
    [species |-> sp, ageDays |-> age, weight |-> w, preferredClimate |-> c,
     price |-> p, type |-> t, enclosureId |-> encId, daysSincePurchase |-> daysPurch,
     gender |-> g, isBornInZoo |-> born, isSick |-> sick, uniqueId |-> id]

\* Offers that all carry the first identity of their refresh.
AvailableAnimal_OneId(k, sexDraws, base) ==
    LET t == Catalog[k] IN
    Animal(t.species, t.ageDays, t.weight * WeightScale, t.preferredClimate, t.price,
           t.type, IF sexDraws[k] # 0 THEN "MALE" ELSE "FEMALE", FALSE, -1, 0, FALSE,
           base)

\* Zoo::getAvailableAnimals: the k-th template instantiated; sexDraws[k] is
\* the value of rand() % 2 drawn for it, base the value of Animal::nextId
\* before the call (the ten constructors run in source order).
AvailableAnimal(k, sexDraws, base) ==
    LET t == Catalog[k] IN
    Animal(t.species, t.ageDays, t.weight * WeightScale, t.preferredClimate, t.price,
           t.type, IF sexDraws[k] # 0 THEN "MALE" ELSE "FEMALE", FALSE, -1, 0, FALSE,
           base + k - 1)

\* A refresh that instantiates one template for every slot.
refreshMarket_Repeat(shuffle, sexDraws, base) ==
    [i \in 1..Min(MarketSize, Len(Catalog)) |-> AvailableAnimal(shuffle[1], sexDraws, base)]

\* Zoo::refreshMarket: the new offer list.  shuffle is the permutation of the
\* catalog indices that std::shuffle produced.
refreshMarket(shuffle, sexDraws, base) ==
    [i \in 1..Min(MarketSize, Len(Catalog)) |-> AvailableAnimal(shuffle[i], sexDraws, base)]

\* Enclosure::Enclosure
Enclosure(i, cap, t, c, cost) ==
    [id |-> i, capacity |-> cap, animalType |-> t, climate |-> c, dailyCost |-> cost,
     animals |-> <<>>]

\* Worker::Worker
Worker(n, t, sal, maxA, encs) ==
    [name |-> n, type |-> t, salary |-> sal, assignedEnclosures |-> encs,
     daysAssigned |-> 0, daysWorked |-> 0, maxAnimals |-> maxA]

\* A repayment that leaves the interest out.
DailyRepayment_NoInterest(p, d) == p \div d

\* Loan::Loan: dailyRepayment = (principal + principal * 0.005 * days) / days.
\* The model borrows only on terms for which both divisions are exact.
DailyRepayment(p, d) == (p + (p * 5 * d) \div 1000) \div d

Loan(p, d) ==
    [principal |-> p, days |-> d, dailyRepayment |-> DailyRepayment(p, d), daysLeft |-> d]

\* canAddAnimal without its capacity test.
canAddAnimal_NoCapacity(enc, animal) ==
    /\ animal.type = enc.animalType
    /\ animal.preferredClimate = enc.climate

\* An admission test that forgets the diet class.
canAddAnimal_AnyDiet(enc, animal) ==
    /\ Len(enc.animals) < enc.capacity
    /\ animal.preferredClimate = enc.climate

\* Enclosure::canAddAnimal
canAddAnimal(enc, animal) ==
    /\ Len(enc.animals) < enc.capacity
    /\ animal.type = enc.animalType
    /\ animal.preferredClimate = enc.climate

\* Enclosure::addAnimal
addAnimal(enc, animal) == [enc EXCEPT !.animals = Append(@, animal)]

\* Enclosure::removeAnimal
removeAnimal(enc, uniqueId) ==
    [enc EXCEPT !.animals = SelectSeq(@, LAMBDA a : a.uniqueId # uniqueId)]

\* Enclosure::updateAnimal: the first stored copy with that identity is replaced.
updateAnimal(enc, updatedAnimal) ==
    LET hits == {i \in 1..Len(enc.animals) : enc.animals[i].uniqueId = updatedAnimal.uniqueId} IN
    IF hits = {} THEN enc
    ELSE LET first == CHOOSE i \in hits : \A j \in hits : i <= j IN
         [enc EXCEPT !.animals[first] = updatedAnimal]

\* The loop "for (auto& enc : enclosures) if (enc.getId() == id) { f(enc); break; }":
\* the first enclosure with that identity is the one changed.
FirstEnc(encs, id) ==
    LET hits == {i \in 1..Len(encs) : encs[i].id = id} IN
    IF hits = {} THEN 0 ELSE CHOOSE i \in hits : \A j \in hits : i <= j

\* A removal that drops the animal from the registry only.
RemoveFromEnclosure_Skip(encs, animal) == encs

RemoveFromEnclosure(encs, animal) ==
    LET k == FirstEnc(encs, animal.enclosureId) IN
    IF k = 0 THEN encs ELSE [encs EXCEPT ![k] = removeAnimal(@, animal.uniqueId)]

AddToEnclosure(encs, id, animal) ==
    LET k == FirstEnc(encs, id) IN
    IF k = 0 THEN encs ELSE [encs EXCEPT ![k] = addAnimal(@, animal)]

\* An erase that drops the last element whatever the position asked for.
EraseAt_Last(s, i) == SubSeq(s, 1, Len(s) - 1)

\* animals.erase(animals.begin() + (i - 1))
EraseAt(s, i) == [k \in 1..(Len(s) - 1) |-> IF k < i THEN s[k] ELSE s[k + 1]]

\* enclosures.back().getId(): the upper end of every prompt for an enclosure ID.
BackId == enclosures[Len(enclosures)].id

Playing == phase = "playing"

---------------------------------------------------------------------------
(* Construction                                                            *)

\* Zoo::Zoo
Init(shuffle, sexDraws) ==
    /\ money = 1488
    /\ food = 100
    /\ popularity = 50 * PopScale
    /\ day = 1
    /\ visitors = 0
    /\ totalAnimals = 0
    /\ specialVisitorType = "None"
    /\ specialVisitorCount = 0
    /\ animalsBoughtToday = 0
    /\ animals = <<>>
    /\ loans = <<>>
    /\ workers = << Worker("K.Z", "DIRECTOR", getSalaryForType("DIRECTOR"), 0, <<>>),
                    Worker("triniti", "CLEANER", getSalaryForType("CLEANER"), 0, <<1>>),
                    Worker("morf", "VETERINARIAN", getSalaryForType("VETERINARIAN"), VetMaxAnimals, <<>>),
                    Worker("diferens", "FEEDER", getSalaryForType("FEEDER"), 0, <<2>>) >>
    /\ enclosures = << Enclosure(1, 5, "HERBIVORE", "TEMPERATE", 10) >>
    /\ marketAnimals = refreshMarket(shuffle, sexDraws, 1)
    /\ nextId = 1 + Len(Catalog)
    /\ phase = "playing"
    /\ lastOp = [op |-> "create"]

---------------------------------------------------------------------------
(* Zoo::manageAnimals                                                      *)

\* A handler that declines prints its message (reason) and changes nothing.
Declined(op, reason) == UNCHANGED vars

\* A limit that starts a day late.
Throttled_Day11 == day > 11 /\ animalsBoughtToday >= 1

\* The limit on purchases: after day 10, one a day.
Throttled == day > 10 /\ animalsBoughtToday >= 1

\* choice 1: buy marketAnimals[animalChoice] into enclosure encId.
\* animalChoice is read in 0..size (0 cancels), encId in 1..BackId.
Purchase(animalChoice, encId) ==
    /\ Playing
    /\ IF Throttled
       THEN Declined("purchase", "throttled")
       ELSE IF marketAnimals = <<>>
       THEN Declined("purchase", "marketEmpty")
       ELSE
         /\ animalChoice \in 1..Len(marketAnimals)
         /\ LET selected == marketAnimals[animalChoice] IN
            IF ~(money >= selected.price)
            THEN Declined("purchase", "noMoney")
            ELSE IF ~(\E k \in 1..Len(enclosures) : canAddAnimal(enclosures[k], selected))
            THEN Declined("purchase", "noEnclosure")
            ELSE
              /\ encId \in 1..BackId
              /\ LET hits == {k \in 1..Len(enclosures) :
                                enclosures[k].id = encId /\ canAddAnimal(enclosures[k], selected)} IN
                 IF hits = {}
                 THEN Declined("purchase", "badEnclosure")
                 ELSE
                   LET k == CHOOSE i \in hits : \A j \in hits : i <= j
                       placed == [selected EXCEPT !.enclosureId = encId] IN
                   /\ enclosures' = [enclosures EXCEPT ![k] = addAnimal(@, placed)]
                   /\ animals' = Append(animals, placed)
                   /\ money' = money - selected.price
                   /\ totalAnimals' = totalAnimals + 1
                   /\ animalsBoughtToday' = animalsBoughtToday + 1
                   /\ marketAnimals' = EraseAt(marketAnimals, animalChoice)
                   /\ lastOp' = [op |-> "purchase", in |-> <<animalChoice, encId>>, out |-> "placed"]
                   /\ UNCHANGED <<food, popularity, workers, loans, day, visitors,
                                  specialVisitorType, specialVisitorCount, nextId, phase>>

\* choice 2: sell animals[sellChoice] for half its price.
Sell(sellChoice) ==
    /\ Playing
    /\ IF animals = <<>>
       THEN Declined("sell", "noAnimals")
       ELSE
         /\ sellChoice \in 1..Len(animals)
         /\ LET sold == animals[sellChoice] IN
            /\ money' = money + CDiv(sold.price, 2)
            /\ enclosures' = RemoveFromEnclosure(enclosures, sold)
            /\ animals' = EraseAt(animals, sellChoice)
            /\ totalAnimals' = totalAnimals - 1
            /\ lastOp' = [op |-> "sell", in |-> <<sellChoice>>, out |-> "sold"]
            /\ UNCHANGED <<food, popularity, workers, loans, day, visitors,
                           specialVisitorType, specialVisitorCount, marketAnimals,
                           animalsBoughtToday, nextId, phase>>

\* A refresh that debits the fee whatever the cash.
PaidRefresh_OnCredit(shuffle, sexDraws) ==
    /\ Playing
    /\ money' = money - RefreshFee
    /\ marketAnimals' = refreshMarket(shuffle, sexDraws, nextId)
    /\ nextId' = nextId + Len(Catalog)
    /\ lastOp' = [op |-> "refresh", in |-> <<>>, out |-> "refreshed"]
    /\ UNCHANGED <<food, popularity, animals, enclosures, workers, loans, day,
                   visitors, totalAnimals, specialVisitorType,
                   specialVisitorCount, animalsBoughtToday, phase>>

\* A refresh that shuffles by itself, whatever permutation it is handed.
PaidRefresh_OwnShuffle(shuffle, sexDraws) ==
    /\ Playing
    /\ money >= RefreshFee
    /\ money' = money - RefreshFee
    /\ \E sh \in {[i \in 1..Len(Catalog) |-> i], [i \in 1..Len(Catalog) |-> Len(Catalog) + 1 - i]} :
         marketAnimals' = refreshMarket(sh, sexDraws, nextId)
    /\ nextId' = nextId + Len(Catalog)
    /\ lastOp' = [op |-> "refresh", in |-> <<>>, out |-> "refreshed"]
    /\ UNCHANGED <<food, popularity, animals, enclosures, workers, loans, day,
                   visitors, totalAnimals, specialVisitorType,
                   specialVisitorCount, animalsBoughtToday, phase>>

\* choice 5: the paid market refresh.
PaidRefresh(shuffle, sexDraws) ==
    /\ Playing
    /\ IF money >= RefreshFee
       THEN /\ money' = money - RefreshFee
            /\ marketAnimals' = refreshMarket(shuffle, sexDraws, nextId)
            /\ nextId' = nextId + Len(Catalog)
            /\ lastOp' = [op |-> "refresh", in |-> <<>>, out |-> "refreshed"]
            /\ UNCHANGED <<food, popularity, animals, enclosures, workers, loans, day,
                           visitors, totalAnimals, specialVisitorType,
                           specialVisitorCount, animalsBoughtToday, phase>>
       ELSE Declined("refresh", "noMoney")

---------------------------------------------------------------------------
(* Zoo::manageWorkers                                                      *)

\* A duration that is only ever raised.
setDaysAssigned_Longest(w, days) ==
    [w EXCEPT !.daysAssigned = IF @ > days THEN @ ELSE days]

\* Worker::setDaysAssigned
setDaysAssigned(w, days) == [w EXCEPT !.daysAssigned = days]

\* An assignment that overwrites the set instead of adding to it.
assignEnclosure_Replace(w, encId) == [w EXCEPT !.assignedEnclosures = <<encId>>]

\* Worker::assignEnclosure
assignEnclosure(w, encId) ==
    IF encId \in Range(w.assignedEnclosures) THEN w
    ELSE [w EXCEPT !.assignedEnclosures = Append(@, encId)]

\* Hiring a cleaner or a feeder: each entered ID that names an enclosure is assigned.
RECURSIVE HireAssign(_, _)
HireAssign(w, ids) ==
    IF ids = <<>> THEN w
    ELSE HireAssign(IF FirstEnc(enclosures, Head(ids)) # 0
                    THEN assignEnclosure(w, Head(ids)) ELSE w, Tail(ids))

\* A hiring that gives the veterinarian two days on the enclosures it entered.
RECURSIVE HireVetAssign_Timed(_, _, _)
HireVetAssign_Timed(w, ids, totalAnimalsAssigned) ==
    IF ids = <<>>
    THEN [w EXCEPT !.daysAssigned = IF w.assignedEnclosures # <<>> THEN 2 ELSE 0]
    ELSE LET k == FirstEnc(enclosures, Head(ids)) IN
         IF k = 0 THEN HireVetAssign_Timed(w, Tail(ids), totalAnimalsAssigned)
         ELSE LET animalCount == Len(enclosures[k].animals) IN
              IF totalAnimalsAssigned + animalCount > 20
              THEN HireVetAssign_Timed(w, Tail(ids), totalAnimalsAssigned)
              ELSE HireVetAssign_Timed(assignEnclosure(w, Head(ids)), Tail(ids),
                                       totalAnimalsAssigned + animalCount)

\* Hiring a veterinarian: an entered enclosure is assigned unless its resident
\* count would bring the running total above 20.
RECURSIVE HireVetAssign(_, _, _)
HireVetAssign(w, ids, totalAnimalsAssigned) ==
    IF ids = <<>> THEN w
    ELSE LET k == FirstEnc(enclosures, Head(ids)) IN
         IF k = 0 THEN HireVetAssign(w, Tail(ids), totalAnimalsAssigned)
         ELSE LET animalCount == Len(enclosures[k].animals) IN
              IF totalAnimalsAssigned + animalCount > 20
              THEN HireVetAssign(w, Tail(ids), totalAnimalsAssigned)
              ELSE HireVetAssign(assignEnclosure(w, Head(ids)), Tail(ids),
                                 totalAnimalsAssigned + animalCount)

\* A hiring menu whose first entry is the director.
PositionOf_Director(posChoice) ==
    CASE posChoice = 1 -> "DIRECTOR"
      [] posChoice = 2 -> "CLEANER"
      [] posChoice = 3 -> "FEEDER"
      [] OTHER -> "CLEANER"

\* The position a choice of the hiring menu stands for.
PositionOf(posChoice) ==
    CASE posChoice = 1 -> "VETERINARIAN"
      [] posChoice = 2 -> "CLEANER"
      [] posChoice = 3 -> "FEEDER"
      [] OTHER -> "CLEANER"

\* choice 1: hire.  posChoice is read in 1..3; ids are the enclosure IDs entered
\* before the terminating 0 (a cleaner enters exactly one, a feeder at most two).
Hire(name, posChoice, ids) ==
    /\ Playing
    /\ posChoice \in 1..3
    /\ \A i \in 1..Len(ids) : ids[i] \in 1..BackId
    /\ LET position == PositionOf(posChoice)
           maxA == IF posChoice = 1 THEN VetMaxAnimals ELSE 0
           newWorker == Worker(name, position, getSalaryForType(position), maxA, <<>>)
           assigned ==
               IF enclosures = <<>> THEN newWorker
               ELSE CASE position = "CLEANER" -> HireAssign(newWorker, ids)
                      [] position = "FEEDER" -> HireAssign(newWorker, ids)
                      [] position = "VETERINARIAN" -> HireVetAssign(newWorker, ids, 0)
                      [] OTHER -> newWorker IN
       /\ position = "CLEANER" => Len(ids) = 1
       /\ position = "FEEDER" => Len(ids) <= 2
       /\ workers' = Append(workers, assigned)
       /\ lastOp' = [op |-> "hire", in |-> <<posChoice, ids>>, out |-> "hired"]
       /\ UNCHANGED <<money, food, popularity, animals, enclosures, loans, day, visitors,
                      totalAnimals, specialVisitorType, specialVisitorCount, marketAnimals,
                      animalsBoughtToday, nextId, phase>>

\* choice 3: fire workers[fireChoice].
Fire(fireChoice) ==
    /\ Playing
    /\ IF Len(workers) <= 1
       THEN Declined("fire", "lastWorker")
       ELSE
         /\ fireChoice \in 1..Len(workers)
         /\ IF workers[fireChoice].type = "DIRECTOR"
            THEN Declined("fire", "director")
            ELSE /\ workers' = EraseAt(workers, fireChoice)
                 /\ lastOp' = [op |-> "fire", in |-> <<fireChoice>>, out |-> "fired"]
                 /\ UNCHANGED <<money, food, popularity, animals, enclosures, loans, day,
                                visitors, totalAnimals, specialVisitorType,
                                specialVisitorCount, marketAnimals, animalsBoughtToday,
                                nextId, phase>>

\* The number of animals in the enclosures a worker is assigned to (lines 1067-1075).
AssignedAnimals(w) ==
    SumSeq([i \in 1..Len(w.assignedEnclosures) |->
              LET k == FirstEnc(enclosures, w.assignedEnclosures[i]) IN
              IF k = 0 THEN 0 ELSE Len(enclosures[k].animals)])

\* The veterinarian's limit check of the assign handler (lines 1066-1085).  Its
\* "continue" sits in the inner loop over the enclosures, so it ends that
\* iteration only: the message is printed and the handler goes on to assign.
VetLimitMessage(w, encId) ==
    /\ w.type = "VETERINARIAN"
    /\ LET k == FirstEnc(enclosures, encId) IN
       k # 0 /\ AssignedAnimals(w) + Len(enclosures[k].animals) > w.maxAnimals

\* The cap with the cleaner's limit off by one.
MaxEnclosuresOf_Loose(type) ==
    IF type = "CLEANER" THEN 2 ELSE IF type = "FEEDER" THEN 2 ELSE 2147483647

\* maxEnclosures: the cap on the number of assignments, by role.
MaxEnclosuresOf(type) ==
    IF type = "CLEANER" THEN 1 ELSE IF type = "FEEDER" THEN 2 ELSE 2147483647

\* choice 4: assign workers[workerChoice] to enclosure encId for daysAssigned days.
\* workerChoice is read in 0..size, encId in 0..BackId (0 cancels), daysAssigned in 1..365.
Assign(workerChoice, encId, daysAssigned) ==
    /\ Playing
    /\ IF workers = <<>>
       THEN Declined("assign", "noWorkers")
       ELSE IF enclosures = <<>>
       THEN Declined("assign", "noEnclosures")
       ELSE
         /\ workerChoice \in 1..Len(workers)
         /\ LET selectedWorker == workers[workerChoice]
                maxEnclosures == MaxEnclosuresOf(selectedWorker.type) IN
            IF selectedWorker.type = "DIRECTOR"
            THEN Declined("assign", "director")
            ELSE
              /\ encId \in 1..BackId
              /\ IF FirstEnc(enclosures, encId) = 0
                 THEN Declined("assign", "badEnclosure")
                 ELSE IF encId \in Range(selectedWorker.assignedEnclosures)
                 THEN Declined("assign", "already")
                 ELSE IF Len(selectedWorker.assignedEnclosures) >= maxEnclosures
                 THEN Declined("assign", "max")
                 ELSE
                   /\ daysAssigned \in 1..365
                   /\ workers' = [workers EXCEPT ![workerChoice] =
                                    setDaysAssigned(assignEnclosure(@, encId), daysAssigned)]
                   /\ lastOp' = [op |-> "assign", in |-> <<workerChoice, encId, daysAssigned>>,
                                 out |-> IF VetLimitMessage(selectedWorker, encId)
                                         THEN "limit+assigned" ELSE "assigned",
                                 was |-> selectedWorker.daysAssigned]
                   /\ UNCHANGED <<money, food, popularity, animals, enclosures, loans, day,
                                  visitors, totalAnimals, specialVisitorType,
                                  specialVisitorCount, marketAnimals, animalsBoughtToday,
                                  nextId, phase>>

---------------------------------------------------------------------------
(* Zoo::managePurchases, Zoo::manageEnclosures, Zoo::manageBreeding        *)

\* A food order that is booked whatever the cash.
BuyFood_OnCredit(foodAmount) ==
    /\ Playing
    /\ foodAmount \in 0..10000
    /\ food' = food + foodAmount
    /\ money' = money - foodAmount * FoodPrice
    /\ lastOp' = [op |-> "buyFood", in |-> <<foodAmount>>, out |-> "bought"]
    /\ UNCHANGED <<popularity, animals, enclosures, workers, loans, day, visitors,
                   totalAnimals, specialVisitorType, specialVisitorCount,
                   marketAnimals, animalsBoughtToday, nextId, phase>>

\* choice 1: buy foodAmount units of food (read in 0..10000).
BuyFood(foodAmount) ==
    /\ Playing
    /\ foodAmount \in 0..10000
    /\ IF money >= foodAmount * FoodPrice
       THEN /\ food' = food + foodAmount
            /\ money' = money - foodAmount * FoodPrice
            /\ lastOp' = [op |-> "buyFood", in |-> <<foodAmount>>, out |-> "bought"]
            /\ UNCHANGED <<popularity, animals, enclosures, workers, loans, day, visitors,
                           totalAnimals, specialVisitorType, specialVisitorCount,
                           marketAnimals, animalsBoughtToday, nextId, phase>>
       ELSE Declined("buyFood", "noMoney")

\* An advertisement whose gain is in proportion to the whole amount.
Advertise_Prorated(adSpend) ==
    /\ Playing
    /\ adSpend \in 0..10000
    /\ IF money >= adSpend
       THEN /\ popularity' = popularity + CDiv(adSpend * AdGain * PopScale, AdStep)
            /\ money' = money - adSpend
            /\ lastOp' = [op |-> "advertise", in |-> <<adSpend>>, out |-> "advertised"]
            /\ UNCHANGED <<food, animals, enclosures, workers, loans, day, visitors,
                           totalAnimals, specialVisitorType, specialVisitorCount,
                           marketAnimals, animalsBoughtToday, nextId, phase>>
       ELSE Declined("advertise", "noMoney")

\* choice 2: spend adSpend on advertising (read in 0..10000).
Advertise(adSpend) ==
    /\ Playing
    /\ adSpend \in 0..10000
    /\ IF money >= adSpend
       THEN /\ popularity' = popularity + (CDiv(adSpend, AdStep) * AdGain) * PopScale
            /\ money' = money - adSpend
            /\ lastOp' = [op |-> "advertise", in |-> <<adSpend>>, out |-> "advertised"]
            /\ UNCHANGED <<food, animals, enclosures, workers, loans, day, visitors,
                           totalAnimals, specialVisitorType, specialVisitorCount,
                           marketAnimals, animalsBoughtToday, nextId, phase>>
       ELSE Declined("advertise", "noMoney")

\* choice 3: borrow amount (read in 1..1000000) for days (read in 1..20).
Borrow(amount, days) ==
    /\ Playing
    /\ amount \in 1..1000000
    /\ days \in 1..20
    /\ loans' = Append(loans, Loan(amount, days))
    /\ money' = money + amount
    /\ lastOp' = [op |-> "borrow", in |-> <<amount, days>>, out |-> "borrowed"]
    /\ UNCHANGED <<food, popularity, animals, enclosures, workers, day, visitors,
                   totalAnimals, specialVisitorType, specialVisitorCount, marketAnimals,
                   animalsBoughtToday, nextId, phase>>

\* A construction that gives the new enclosure the identity of the last one.
Build_SameId(capacity, animalType, climate) ==
    /\ Playing
    /\ capacity \in 1..100
    /\ money >= capacity * 50
    /\ enclosures' = Append(enclosures, Enclosure(BackId, capacity, animalType, climate, capacity * 2))
    /\ money' = money - capacity * 50
    /\ lastOp' = [op |-> "build", in |-> <<capacity, animalType, climate>>, out |-> "built"]
    /\ UNCHANGED <<food, popularity, animals, workers, loans, day, visitors,
                   totalAnimals, specialVisitorType, specialVisitorCount,
                   marketAnimals, animalsBoughtToday, nextId, phase>>

\* manageEnclosures choice 1: build an enclosure (capacity read in 1..100).
Build(capacity, animalType, climate) ==
    /\ Playing
    /\ capacity \in 1..100
    /\ animalType \in AnimalType
    /\ climate \in Climate
    /\ LET cost == capacity * 50 IN
       IF money >= cost
       THEN LET newId == IF enclosures = <<>> THEN 1 ELSE BackId + 1 IN
            /\ enclosures' = Append(enclosures, Enclosure(newId, capacity, animalType, climate, capacity * 2))
            /\ money' = money - cost
            /\ lastOp' = [op |-> "build", in |-> <<capacity, animalType, climate>>, out |-> "built"]
            /\ UNCHANGED <<food, popularity, animals, workers, loans, day, visitors,
                           totalAnimals, specialVisitorType, specialVisitorCount,
                           marketAnimals, animalsBoughtToday, nextId, phase>>
       ELSE Declined("build", "noMoney")

\* An eligibility test that forgets the ages.
BreedThrows_NoAge(a, b) ==
    \/ a.enclosureId # b.enclosureId
    \/ a.gender = b.gender

\* An eligibility test that admits a parent from its fifth day of age.
BreedThrows_FromFive(a, b) ==
    \/ a.enclosureId # b.enclosureId
    \/ a.gender = b.gender
    \/ a.ageDays < 5
    \/ b.ageDays < 5

\* Animal::operator+ : whether it throws.
BreedThrows(a, b) ==
    \/ a.enclosureId # b.enclosureId
    \/ a.gender = b.gender
    \/ a.ageDays <= 5
    \/ b.ageDays <= 5

\* species.substr(0, species.length() / 2) + other.species.substr(other.species.length() / 2)
newSpecies(sp, other) ==
    SubSeq(sp, 1, Len(sp) \div 2) \o SubSeq(other, Len(other) \div 2 + 1, Len(other))

\* A newborn whose price is the mean rounded up.
Newborn_RoundUp(a, b, genderDraw, id) ==
    Animal(newSpecies(a.species, b.species), 0, (a.weight + b.weight) \div 4, a.preferredClimate,
           CDiv(a.price + b.price + 1, 2), a.type,
           IF genderDraw = 0 THEN "MALE" ELSE "FEMALE", TRUE, a.enclosureId, 0, FALSE, id)

\* Animal::operator+ : the newborn.  genderDraw is the value of rand() % 2.
Newborn(a, b, genderDraw, id) ==
    Animal(newSpecies(a.species, b.species), 0, (a.weight + b.weight) \div 4, a.preferredClimate,
           CDiv(a.price + b.price, 2), a.type,
           IF genderDraw = 0 THEN "MALE" ELSE "FEMALE", TRUE, a.enclosureId, 0, FALSE, id)

\* A facade that asks no enclosure.
canAdd_Unchecked(a) == TRUE

\* manageBreeding's canAdd: the enclosure of the first parent can take an
\* animal like it.
canAdd(a) ==
    \E k \in 1..Len(enclosures) :
       enclosures[k].id = a.enclosureId /\ canAddAnimal(enclosures[k], a)

\* A breeding that is held to the limit on purchases and counted as one.
Breed_AsPurchase(first, second, genderDraw) ==
    /\ Playing
    /\ IF Len(animals) < 2
       THEN Declined("breed", "tooFew")
       ELSE
         /\ first \in 1..Len(animals)
         /\ second \in 1..Len(animals)
         /\ LET a == animals[first]
                b == animals[second] IN
            IF first = second
            THEN Declined("breed", "sameAnimal")
            ELSE IF a.enclosureId # b.enclosureId
            THEN Declined("breed", "differentEnclosure")
            ELSE IF ~canAdd(a)
            THEN Declined("breed", "noRoom")
            ELSE IF BreedThrows(a, b) \/ Throttled
            THEN Declined("breed", "ineligible")
            ELSE
              LET newborn == Newborn(a, b, genderDraw, nextId) IN
              /\ genderDraw \in 0..1
              /\ nextId' = nextId + 1
              /\ enclosures' = AddToEnclosure(enclosures, newborn.enclosureId, newborn)
              /\ animals' = Append(animals, newborn)
              /\ totalAnimals' = totalAnimals + 1
              /\ animalsBoughtToday' = animalsBoughtToday + 1
              /\ lastOp' = [op |-> "breed", in |-> <<first, second>>, out |-> "born"]
              /\ UNCHANGED <<money, food, popularity, workers, loans, day, visitors,
                             specialVisitorType, specialVisitorCount, marketAnimals,
                             phase>>

\* manageBreeding choice 1: breed animals[first] with animals[second]
\* (both read in 0..size, 0 cancels).
Breed(first, second, genderDraw) ==
    /\ Playing
    /\ IF Len(animals) < 2
       THEN Declined("breed", "tooFew")
       ELSE
         /\ first \in 1..Len(animals)
         /\ second \in 1..Len(animals)
         /\ LET a == animals[first]
                b == animals[second] IN
            IF first = second
            THEN Declined("breed", "sameAnimal")
            ELSE IF a.enclosureId # b.enclosureId
            THEN Declined("breed", "differentEnclosure")
            ELSE IF ~canAdd(a)
            THEN Declined("breed", "noRoom")
            ELSE IF BreedThrows(a, b)
            THEN Declined("breed", "ineligible")
            ELSE
              LET newborn == Newborn(a, b, genderDraw, nextId) IN
              /\ genderDraw \in 0..1
              /\ nextId' = nextId + 1
              /\ enclosures' = AddToEnclosure(enclosures, newborn.enclosureId, newborn)
              /\ animals' = Append(animals, newborn)
              /\ totalAnimals' = totalAnimals + 1
              /\ lastOp' = [op |-> "breed", in |-> <<first, second>>, out |-> "born"]
              /\ UNCHANGED <<money, food, popularity, workers, loans, day, visitors,
                             specialVisitorType, specialVisitorCount, marketAnimals,
                             animalsBoughtToday, phase>>

---------------------------------------------------------------------------
(* Zoo::nextDay                                                            *)

\* The elements of s at the positions in keep, in order.
RECURSIVE Pick(_, _, _)
Pick(s, keep, i) ==
    IF i > Len(s) THEN <<>>
    ELSE (IF i \in keep THEN <<s[i]>> ELSE <<>>) \o Pick(s, keep, i + 1)

\* Deaths that leave the enclosures as they were.
RemoveAll_None(encs, dead) == encs

\* enc.removeAnimal for every animal of dead, each in its own enclosure.
RECURSIVE RemoveAll(_, _)
RemoveAll(encs, dead) ==
    IF dead = <<>> THEN encs
    ELSE RemoveAll(RemoveFromEnclosure(encs, Head(dead)), Tail(dead))

\* incrementDaysSincePurchase, incrementAgeDays
AgeStep(a) == [a EXCEPT !.daysSincePurchase = @ + 1, !.ageDays = @ + 1]

\* An old-age test that starts a day early.
DiesOfAge_From30(a, roll) == a.ageDays >= 30 /\ roll < a.ageDays

\* The old-age test of an animal already aged; roll is random(0, 99), drawn
\* only when the age is above 30.
DiesOfAge(a, roll) == a.ageDays > 30 /\ roll < a.ageDays

\* A worker loop that never clears the assignments.
WorkerStep_KeepSet(w) ==
    [w EXCEPT !.daysWorked = @ + 1,
              !.daysAssigned = IF @ > 0 THEN @ - 1 ELSE @]

\* The worker loop: days worked, remaining duration, clearing at 0.
WorkerStep(w) ==
    LET left == IF w.daysAssigned > 0 THEN w.daysAssigned - 1 ELSE w.daysAssigned IN
    [w EXCEPT !.daysWorked = @ + 1,
              !.daysAssigned = left,
              !.assignedEnclosures = IF left = 0 THEN <<>> ELSE @]

\* The sickness roll of one animal; roll is random(0, 99), drawn only for an
\* animal that is not sick.
Sicken(a, roll) == IF ~a.isSick /\ roll < 10 THEN [a EXCEPT !.isSick = TRUE] ELSE a

\* A treatment loop that does not count what it has treated.
RECURSIVE TreatLoop_NoCap(_, _, _, _, _)
TreatLoop_NoCap(w, anims, encs, i, treated) ==
    IF i > Len(anims) THEN [animals |-> anims, enclosures |-> encs]
    ELSE IF /\ anims[i].isSick
            /\ anims[i].enclosureId \in Range(w.assignedEnclosures)
         THEN LET healed == [anims[i] EXCEPT !.isSick = FALSE]
                  k == FirstEnc(encs, healed.enclosureId) IN
              TreatLoop_NoCap(w, [anims EXCEPT ![i] = healed],
                              IF k = 0 THEN encs ELSE [encs EXCEPT ![k] = updateAnimal(@, healed)],
                              i + 1, treated + 1)
         ELSE TreatLoop_NoCap(w, anims, encs, i + 1, treated)

\* The treatment loop of one veterinarian over the registry, from position i on.
RECURSIVE TreatLoop(_, _, _, _, _)
TreatLoop(w, anims, encs, i, treated) ==
    IF i > Len(anims) THEN [animals |-> anims, enclosures |-> encs]
    ELSE IF /\ anims[i].isSick
            /\ treated < w.maxAnimals
            /\ anims[i].enclosureId \in Range(w.assignedEnclosures)
         THEN LET healed == [anims[i] EXCEPT !.isSick = FALSE]
                  k == FirstEnc(encs, healed.enclosureId) IN
              TreatLoop(w, [anims EXCEPT ![i] = healed],
                        IF k = 0 THEN encs ELSE [encs EXCEPT ![k] = updateAnimal(@, healed)],
                        i + 1, treated + 1)
         ELSE TreatLoop(w, anims, encs, i + 1, treated)

\* A treatment that goes by the veterinarians as they were before the worker
\* loop of the day: by the duration not yet decremented and the assignments
\* not yet cleared.
RECURSIVE TreatAll_BeforeStep(_, _, _, _)
TreatAll_BeforeStep(ws, j, anims, encs) ==
    IF j > Len(ws) THEN [animals |-> anims, enclosures |-> encs]
    ELSE IF workers[j].type = "VETERINARIAN" /\ workers[j].daysAssigned > 0
         THEN LET r == TreatLoop(workers[j], anims, encs, 1, 0) IN
              TreatAll_BeforeStep(ws, j + 1, r.animals, r.enclosures)
         ELSE TreatAll_BeforeStep(ws, j + 1, anims, encs)

\* The loop over the workers: every veterinarian with days of assignment left treats.
RECURSIVE TreatAll(_, _, _, _)
TreatAll(ws, j, anims, encs) ==
    IF j > Len(ws) THEN [animals |-> anims, enclosures |-> encs]
    ELSE IF ws[j].type = "VETERINARIAN" /\ ws[j].daysAssigned > 0
         THEN LET r == TreatLoop(ws[j], anims, encs, 1, 0) IN
              TreatAll(ws, j + 1, r.animals, r.enclosures)
         ELSE TreatAll(ws, j + 1, anims, encs)

\* foodNeeded: 1 per herbivore, 2 per carnivore.
FoodNeeded(anims) ==
    SumSeq([i \in 1..Len(anims) |-> IF anims[i].type = "HERBIVORE" THEN 1 ELSE 2])

\* A feeding that hands out what is left when the stock does not cover the demand.
Feed_Partial(stock, foodNeeded) == IF stock >= foodNeeded THEN stock - foodNeeded ELSE 0

\* "if (food >= foodNeeded) food -= foodNeeded;": the stock after the feeding.
Feed(stock, foodNeeded) == IF stock >= foodNeeded THEN stock - foodNeeded ELSE stock

\* The starvation roll; roll is random(0, 99).
Starves(roll) == roll < 30

\* A drift that forgets the floor at 0.
Drift_NoFloor(pop, offset, sickCount) ==
    (pop * (100 + offset)) \div 100 - sickCount * PopScale

\* popularity *= (1.0 + (random(-10, 10) / 100.0)); popularity -= sickCount; floor at 0.
Drift(pop, offset, sickCount) ==
    LET scaled == (pop * (100 + offset)) \div 100
        less == scaled - sickCount * PopScale IN
    IF less < 0 THEN 0 ELSE less

\* A roll whose celebrity range starts one late.
Special_Late(specialRoll, count) ==
    IF specialRoll <= 20 THEN [type |-> "None", count |-> 0, bonus |-> 0]
    ELSE IF specialRoll < 30 THEN [type |-> "Celebrity", count |-> count, bonus |-> count * 10]
    ELSE IF specialRoll < 50 THEN [type |-> "Photographer", count |-> count, bonus |-> count * 5]
    ELSE [type |-> "None", count |-> 0, bonus |-> 0]

\* A roll read without the reset at the head of the day: from 50 on, the
\* visitors of the day before stay.
Special_Sticky(specialRoll, count) ==
    IF specialRoll < 20 THEN [type |-> "None", count |-> 0, bonus |-> 0]
    ELSE IF specialRoll < 30 THEN [type |-> "Celebrity", count |-> count, bonus |-> count * 10]
    ELSE IF specialRoll < 50 THEN [type |-> "Photographer", count |-> count, bonus |-> count * 5]
    ELSE [type |-> specialVisitorType, count |-> specialVisitorCount, bonus |-> 0]

\* The special-visitor roll: kind, count and the popularity bonus.  count is
\* random(1, 2) for a celebrity, random(1, 3) for a photographer.
Special(specialRoll, count) ==
    IF specialRoll < 20 THEN [type |-> "None", count |-> 0, bonus |-> 0]
    ELSE IF specialRoll < 30 THEN [type |-> "Celebrity", count |-> count, bonus |-> count * 10]
    ELSE IF specialRoll < 50 THEN [type |-> "Photographer", count |-> count, bonus |-> count * 5]
    ELSE [type |-> "None", count |-> 0, bonus |-> 0]

\* The counts the special-visitor roll can be followed by (0: no count is drawn).
SpecialCounts(specialRoll) ==
    IF specialRoll < 20 THEN {0}
    ELSE IF specialRoll < 30 THEN 1..2
    ELSE IF specialRoll < 50 THEN 1..3
    ELSE {0}

\* Revenue counted on the animals alive before the day's deaths.
Revenue_BeforeDeaths(v, total) == v * totalAnimals

\* "money += visitors * totalAnimals;"
Revenue(v, total) == v * total

\* The loan loop: what is debited, the loans after the decrement, and the purge.
LoanDebit(ls) == SumSeq([i \in 1..Len(ls) |-> IF ls[i].daysLeft > 0 THEN ls[i].dailyRepayment ELSE 0])

LoanStep(l) == IF l.daysLeft > 0 THEN [l EXCEPT !.daysLeft = @ - 1] ELSE l

\* A purge that keeps the loans that are paid off.
LoanPurge_Never(ls) == ls

LoanPurge(ls) == SelectSeq(ls, LAMBDA l : ~(l.daysLeft <= 0))

\* A loop that never ends the game on a debt.
Outcome_Forgiving(cash, d) == IF d <= maxDays THEN "playing" ELSE "won"

\* Zoo::playGame after nextDay: the game is lost on negative cash, goes on
\* while day <= maxDays, and is won otherwise.
Outcome(cash, d) ==
    IF cash < 0 THEN "lost"
    ELSE IF d <= maxDays THEN "playing" ELSE "won"

\* The day transition, and the test playGame makes after it.  Each stage of
\* the pipeline is bound once, in source order, and the stages after it read it.
\*   shuffle, sexDraws     the market refresh
\*   ageRoll[i]            the old-age roll of animals[i]
\*   sickRoll[i]           the sickness roll of the i-th animal left after old age
\*   starveRoll[i]         the starvation roll of the i-th animal left at the feeding
\*   offset                random(-10, 10)
\*   specialRoll, count    the special-visitor roll and the count drawn after it
NextDay(shuffle, sexDraws, ageRoll, sickRoll, starveRoll, offset, specialRoll, count) ==
    /\ Playing
    /\ offset \in -10..10
    /\ specialRoll \in 0..99
    /\ count \in SpecialCounts(specialRoll)
    /\ \E aged \in {[i \in 1..Len(animals) |-> AgeStep(animals[i])]} :
       \E oldIdx \in {{i \in 1..Len(aged) : DiesOfAge(aged[i], ageRoll[i])}} :
       \E oldDead \in {Pick(aged, oldIdx, 1)} :
       \E alive1 \in {Pick(aged, (1..Len(aged)) \ oldIdx, 1)} :
       \E encs1 \in {RemoveAll(enclosures, oldDead)} :
       \E workers1 \in {[j \in 1..Len(workers) |-> WorkerStep(workers[j])]} :
       \E sickened \in {[i \in 1..Len(alive1) |-> Sicken(alive1[i], sickRoll[i])]} :
       \E treated \in {TreatAll(workers1, 1, sickened, encs1)} :
       \E alive2 \in {treated.animals} :
       \E foodNeeded \in {FoodNeeded(alive2)} :
       \E fed \in {food >= foodNeeded} :
       \E starvedIdx \in {IF fed THEN {} ELSE {i \in 1..Len(alive2) : Starves(starveRoll[i])}} :
       \E starved \in {Pick(alive2, starvedIdx, 1)} :
       \E alive3 \in {Pick(alive2, (1..Len(alive2)) \ starvedIdx, 1)} :
       \E encs3 \in {RemoveAll(treated.enclosures, starved)} :
       \E total3 \in {totalAnimals - Len(oldDead) - Len(starved)} :
       \E sickCount \in {Cardinality({i \in 1..Len(alive3) : alive3[i].isSick})} :
       \E pop1 \in {Drift(popularity, offset, sickCount)} :
       \E visitors1 \in {pop1 \div PopScale} :
       \E special \in {Special(specialRoll, count)} :
       \E salaries \in {SumSeq([j \in 1..Len(workers1) |-> workers1[j].salary])} :
       \E upkeep \in {SumSeq([k \in 1..Len(encs3) |-> encs3[k].dailyCost])} :
       \E money1 \in {money + Revenue(visitors1, total3) - salaries - upkeep - LoanDebit(loans)} :
       \E loans1 \in {[i \in 1..Len(loans) |-> LoanStep(loans[i])]} :
       \E paidOff \in {Pick(loans1, {i \in 1..Len(loans) : loans[i].daysLeft > 0 /\ loans1[i].daysLeft = 0}, 1)} :
       /\ day' = day + 1
       /\ animalsBoughtToday' = 0
       /\ marketAnimals' = refreshMarket(shuffle, sexDraws, nextId)
       /\ nextId' = nextId + Len(Catalog)
       /\ specialVisitorType' = special.type
       /\ specialVisitorCount' = special.count
       /\ animals' = alive3
       /\ enclosures' = encs3
       /\ totalAnimals' = total3
       /\ workers' = workers1
       /\ food' = Feed(food, foodNeeded)
       /\ popularity' = pop1 + special.bonus * PopScale
       /\ visitors' = visitors1
       /\ money' = money1
       /\ loans' = LoanPurge(loans1)
       /\ phase' = Outcome(money1, day + 1)
       /\ lastOp' = [op |-> "nextDay", in |-> <<offset, specialRoll, count>>, out |-> "advanced",
                     oldAge |-> [i \in 1..Len(oldDead) |-> oldDead[i].uniqueId],
                     sick |-> Pick([i \in 1..Len(sickened) |-> sickened[i].uniqueId],
                                   {i \in 1..Len(sickened) : sickened[i].isSick}, 1),
                     hunger |-> [i \in 1..Len(starved) |-> starved[i].uniqueId],
                     paidOff |-> [i \in 1..Len(paidOff) |-> paidOff[i].principal],
                     cleared |-> Pick([j \in 1..Len(workers) |-> j],
                                      {j \in 1..Len(workers) :
                                         /\ workers[j].assignedEnclosures # <<>>
                                         /\ workers1[j].assignedEnclosures = <<>>}, 1)]

---------------------------------------------------------------------------
(* The draws and the entries the specifications explore                    *)

\* std::shuffle leaving the catalog order, and reversing it.
ShuffleId == [i \in 1..Len(Catalog) |-> i]

ShuffleRev == [i \in 1..Len(Catalog) |-> Len(Catalog) + 1 - i]

\* rand() % 2 for the ten offers: all 1 (males), all 0 (females), alternating.
SexAllMale == [k \in 1..Len(Catalog) |-> 1]

SexAllFemale == [k \in 1..Len(Catalog) |-> 0]

SexAlternate == [k \in 1..Len(Catalog) |-> k % 2]

\* A roll of random(0, 99) per position: f[i] ranges over rolls at the positions
\* of relevant and is 99 elsewhere (where the roll is not drawn or decides nothing).
RollFns(n, relevant, rolls) ==
    {[i \in 1..n |-> IF i \in relevant THEN g[i] ELSE 99] : g \in [relevant -> rolls]}

\* The positions of the registry whose old-age roll is drawn.
AgeRelevant == {i \in 1..Len(animals) : animals[i].ageDays + 1 > 30}

\* The positions whose starvation roll can be drawn: none while the stock
\* covers the largest possible demand.
StarveRelevant == IF food >= 2 * Len(animals) THEN {} ELSE 1..Len(animals)

LowHigh == {0, 99}

---------------------------------------------------------------------------
(* SpecAnimals: purchase, sale, breeding, construction, market refresh,    *)
(* food purchase and day-advance, from the zoo as constructed.             *)

MaxAnimals == 3

MaxEnclosures == 2

MaxDayAnimals == 2

MaxRefreshes == 1

MaxBirths == 2

\* Every market refresh issues Len(Catalog) identities and every birth one:
\* the births so far (fewer than Len(Catalog)) and the paid refreshes so far.
Births == (nextId - 1) % Len(Catalog)

Refreshes == (nextId - 1) \div Len(Catalog) - day

\* The offers the player picks from: the species that fit a temperate enclosure.
Wanted(species) == {i \in 1..Len(marketAnimals) : marketAnimals[i].species \in species}

InitAnimals == Init(ShuffleId, SexAlternate)

NextAnimals ==
    \/ \E i \in Wanted({"Olen'", "Volk"}), e \in 1..MaxEnclosures :
         Len(animals) < MaxAnimals /\ Purchase(i, e)
    \/ \E i \in 1..MaxAnimals : Sell(i)
    \/ \E f \in 1..MaxAnimals, s \in 1..MaxAnimals, g \in 0..1 :
         Len(animals) < MaxAnimals /\ Births < MaxBirths /\ Breed(f, s, g)
    \/ Len(enclosures) < MaxEnclosures /\ Build(1, "CARNIVORE", "TEMPERATE")
    \/ Refreshes < MaxRefreshes /\ PaidRefresh(ShuffleRev, SexAllFemale)
    \/ \E ageRoll \in RollFns(Len(animals), AgeRelevant, LowHigh) :
       \E sickRoll \in RollFns(Len(animals), 1..Len(animals), LowHigh) :
       \E starveRoll \in RollFns(Len(animals), StarveRelevant, LowHigh) :
         day < MaxDayAnimals /\ NextDay(ShuffleId, SexAllMale, ageRoll, sickRoll, starveRoll, 0, 0, 0)

SpecAnimals == InitAnimals /\ [][NextAnimals]_vars

---------------------------------------------------------------------------
(* SpecHerd: one long game.  On day 1 the player borrows, builds a large   *)
(* tropical enclosure, buys an elephant and a giraffe and breeds them; the *)
(* veterinarian is assigned to the herd; then the days pass, the food      *)
(* stock runs out and the first animals reach the age at which they die.   *)

HerdCapacity == 21

MaxDayHerd == 17

MaxSellDay == 2

\* The same roll at every position.
SameRoll(n, roll) == [i \in 1..n |-> roll]

\* A low roll at the first position only.
FirstLow(n) == [i \in 1..n |-> IF i = 1 THEN 0 ELSE 99]

InitHerd == Init(ShuffleId, SexAlternate)

NextHerd ==
    \/ loans = <<>> /\ Borrow(1000, 10)
    \/ Len(enclosures) < 2 /\ Build(HerdCapacity, "HERBIVORE", "TROPICAL")
    \/ \E i \in Wanted({"Slon", "Ziraf"}) : day = 1 /\ Purchase(i, 2)
    \/ day = 1 /\ Breed(1, 2, 0)
    \/ day = MaxSellDay /\ Len(animals) = HerdCapacity /\ Sell(Len(animals))
    \/ day <= MaxSellDay /\ Assign(3, 2, 2)
    \/ \E ageRoll \in RollFns(Len(animals), AgeRelevant, LowHigh) :
       \E starveRoll \in {SameRoll(Len(animals), 99), SameRoll(Len(animals), 0), FirstLow(Len(animals))} :
         /\ day < MaxDayHerd
         /\ day = 1 => Len(animals) \in {0, 2, HerdCapacity}
         /\ StarveRelevant = {} => starveRoll = SameRoll(Len(animals), 99)
         /\ NextDay(ShuffleId, SexAlternate, ageRoll, SameRoll(Len(animals), 99), starveRoll, 0, 0, 0)

SpecHerd == InitHerd /\ [][NextHerd]_vars

---------------------------------------------------------------------------
(* SpecLoans: borrowing and the days that repay it, with no animals.       *)

MaxLoans == 2

MaxDayLoans == 12

\* Terms on which the daily repayment is a whole amount.
LoanTerms == {<<1000, 10>>, <<2000, 20>>, <<200, 1>>}

InitLoans == Init(ShuffleId, SexAllMale)

NextLoans ==
    \/ \E t \in LoanTerms : Len(loans) < MaxLoans /\ Borrow(t[1], t[2])
    \/ day < MaxDayLoans /\ NextDay(ShuffleId, SexAllMale, <<>>, <<>>, <<>>, 0, 0, 0)

SpecLoans == InitLoans /\ [][NextLoans]_vars

---------------------------------------------------------------------------
(* SpecStaff: hiring, firing, assignment, construction and day-advance.    *)

MaxHires == 1

MaxEnclosuresStaff == 2

MaxDayStaff == 2

MaxAssignDays == 2

\* What can be entered at the hiring prompts: up to two enclosure IDs.
HireEntries == {<<>>} \cup {<<a>> : a \in 1..BackId} \cup {<<a, b>> : a \in 1..BackId, b \in 1..BackId}

\* The workers hired so far that are still employed.
Hired == {i \in 1..Len(workers) : workers[i].name = "new"}

InitStaff == Init(ShuffleId, SexAllMale)

NextStaff ==
    \/ \E posChoice \in 1..3, ids \in HireEntries :
         Cardinality(Hired) < MaxHires /\ Hire("new", posChoice, ids)
    \/ \E i \in {1, Len(workers)} : Fire(i)
    \/ \E w \in {1, 2, Len(workers)}, e \in 1..MaxEnclosuresStaff, d \in 1..MaxAssignDays :
         Assign(w, e, d)
    \/ Len(enclosures) < MaxEnclosuresStaff /\ Build(1, "CARNIVORE", "TEMPERATE")
    \/ day < MaxDayStaff /\ NextDay(ShuffleId, SexAllMale, <<>>, <<>>, <<>>, 0, 0, 0)

SpecStaff == InitStaff /\ [][NextStaff]_vars

---------------------------------------------------------------------------
(* SpecCrew: the four workers of the constructed zoo over several days:    *)
(* any of them is fired or assigned, with one deer bought and a second     *)
(* enclosure built on day 1.                                               *)

MaxDayCrew == 3

MaxCrewAssignDays == 2

MaxCrewEnclosures == 2

InitCrew == Init(ShuffleId, SexAlternate)

NextCrew ==
    \/ \E i \in 1..Len(workers) : Fire(i)
    \/ \E w \in 1..Len(workers), e \in 1..MaxCrewEnclosures, d \in 1..MaxCrewAssignDays :
         Assign(w, e, d)
    \/ day = 1 /\ Len(enclosures) < MaxCrewEnclosures /\ Build(1, "CARNIVORE", "TEMPERATE")
    \/ \E i \in Wanted({"Olen'"}) : day = 1 /\ animals = <<>> /\ Purchase(i, 1)
    \/ day < MaxDayCrew
         /\ NextDay(ShuffleId, SexAlternate, SameRoll(Len(animals), 99),
                    SameRoll(Len(animals), 99), SameRoll(Len(animals), 99), 0, 0, 0)

SpecCrew == InitCrew /\ [][NextCrew]_vars

---------------------------------------------------------------------------
(* SpecBreed: two generations.  On day 1 the player may build a second     *)
(* temperate enclosure and buys a male deer and a female rabbit (3 days    *)
(* old); the days pass without deaths; any two animals are bred on any     *)
(* day, so that a hybrid born on day 4 can itself breed on day 10.         *)

MaxDayBreed == 10

MaxBreedBirths == 2

MaxBreedAnimals == 4

\* rand() % 2 for the ten offers: the first three male, the others female.
SexHalves == [k \in 1..Len(Catalog) |-> IF k <= 3 THEN 1 ELSE 0]

InitBreed == Init(ShuffleId, SexHalves)

NextBreed ==
    \/ day = 1 /\ animals = <<>> /\ Len(enclosures) < 2 /\ Build(2, "HERBIVORE", "TEMPERATE")
    \/ \E i \in Wanted({"Olen'", "Krolik"}), e \in 1..2 : day = 1 /\ Purchase(i, e)
    \/ \E f \in 1..MaxBreedAnimals, s \in 1..MaxBreedAnimals, g \in 0..1 :
         Births < MaxBreedBirths /\ Breed(f, s, g)
    \/ day < MaxDayBreed
         /\ NextDay(ShuffleId, SexHalves, SameRoll(Len(animals), 99),
                    SameRoll(Len(animals), 99), SameRoll(Len(animals), 99), 0, 0, 0)

SpecBreed == InitBreed /\ [][NextBreed]_vars

---------------------------------------------------------------------------
(* SpecClinic: sickness and treatment.  On day 1 the player borrows,       *)
(* builds the large tropical enclosure and raises a herd in it as in       *)
(* SpecHerd; the veterinarian is assigned to the herd for one to three     *)
(* days; on every day-advance all animals fall sick or none does.          *)

MaxDayClinic == 4

MaxClinicAssignDays == 3

InitClinic == Init(ShuffleId, SexAlternate)

NextClinic ==
    \/ loans = <<>> /\ day = 1 /\ Borrow(1000, 10)
    \/ Len(enclosures) < 2 /\ day = 1 /\ Build(HerdCapacity, "HERBIVORE", "TROPICAL")
    \/ \E i \in Wanted({"Slon", "Ziraf"}) : day = 1 /\ Purchase(i, 2)
    \/ day = 1 /\ Breed(1, 2, 0)
    \/ \E d \in 1..MaxClinicAssignDays : Assign(3, 2, d)
    \/ \E sickRoll \in {SameRoll(Len(animals), 99), SameRoll(Len(animals), 0)} :
         /\ day < MaxDayClinic
         /\ day = 1 => Len(animals) \in {2, HerdCapacity - 1, HerdCapacity}
         /\ NextDay(ShuffleId, SexAlternate, SameRoll(Len(animals), 99), sickRoll,
                    SameRoll(Len(animals), 99), 0, 0, 0)

SpecClinic == InitClinic /\ [][NextClinic]_vars

---------------------------------------------------------------------------
(* SpecVisitors: popularity, visitors and special visitors.  On day 1 the  *)
(* player borrows, builds a tropical enclosure for a crowd of animals and  *)
(* raises none, a pair or the whole crowd; no veterinarian is assigned, so *)
(* the sick stay sick; every day-advance draws the offset at both ends and *)
(* in the middle and the special-visitor roll at the ends of its ranges.   *)

MaxDayVisitors == 3

CrowdCapacity == 51

VisitorOffsets == {-10, 0, 10}

VisitorRolls == {0, 19, 20, 29, 30, 49, 50, 99}

InitVisitors == Init(ShuffleId, SexAlternate)

NextVisitors ==
    \/ loans = <<>> /\ day = 1 /\ Borrow(10000, 20)
    \/ Len(enclosures) < 2 /\ day = 1 /\ Build(CrowdCapacity, "HERBIVORE", "TROPICAL")
    \/ \E i \in Wanted({"Slon", "Ziraf"}) : day = 1 /\ Purchase(i, 2)
    \/ day = 1 /\ Breed(1, 2, 0)
    \/ \E sickRoll \in {SameRoll(Len(animals), 99), SameRoll(Len(animals), 0)} :
       \E offset \in VisitorOffsets, specialRoll \in VisitorRolls :
       \E count \in SpecialCounts(specialRoll) :
         /\ day < MaxDayVisitors
         /\ day = 1 => Len(animals) \in {0, 2, CrowdCapacity}
         /\ day = 1 => Len(enclosures) = 2
         /\ NextDay(ShuffleId, SexAlternate, SameRoll(Len(animals), 99), sickRoll,
                    SameRoll(Len(animals), 99), offset, specialRoll, count)

SpecVisitors == InitVisitors /\ [][NextVisitors]_vars

---------------------------------------------------------------------------
(* SpecSeason: whole games, to the win or the loss.  The player buys deer  *)
(* and rabbits on the shopping days and may borrow once; nothing dies      *)
(* before its time.  The game ends by itself, so no bound is needed.       *)

\* The days on which the player buys: the first, the last without the limit
\* and the first two with it.
ShoppingDays == {1, 10, 11, 12}

\* The days on which the player may borrow.
BorrowDays == {1, 10}

InitSeason == Init(ShuffleId, SexAlternate)

NextSeason ==
    \/ \E i \in Wanted({"Olen'", "Krolik"}) : day \in ShoppingDays /\ Purchase(i, 1)
    \/ day \in BorrowDays /\ loans = <<>> /\ Borrow(10000, 20)
    \/ NextDay(ShuffleId, SexAlternate, SameRoll(Len(animals), 99), SameRoll(Len(animals), 99),
               SameRoll(Len(animals), 99), 0, 0, 0)

SpecSeason == InitSeason /\ [][NextSeason]_vars

---------------------------------------------------------------------------
(* SpecShop: day 1 spent at the tills: one order of food, one advertising  *)
(* campaign, construction, the paid refresh and purchases, until the cash  *)
(* covers nothing more.                                                    *)

MaxShopEnclosures == 2

MaxShopRefreshes == 1

MaxShopAnimals == 2

\* Amounts of food ordered: none, a little, most of the starting cash.
FoodOrders == {0, 100, 700}

\* Advertising budgets: one step and a bit, most of the starting cash.
AdBudgets == {238, 1400}

\* Capacities built: the smallest, and the one that costs 1250.
BuildSizes == {1, 25}

InitShop == Init(ShuffleId, SexAlternate)

NextShop ==
    \/ \E f \in FoodOrders : food = 100 /\ BuyFood(f)
    \/ \E a \in AdBudgets : popularity = 50 * PopScale /\ Advertise(a)
    \/ \E c \in BuildSizes : Len(enclosures) < MaxShopEnclosures /\ Build(c, "HERBIVORE", "TEMPERATE")
    \/ Refreshes < MaxShopRefreshes /\ PaidRefresh(ShuffleRev, SexAllFemale)
    \/ \E i \in 1..Len(marketAnimals), e \in 1..BackId :
         Len(animals) < MaxShopAnimals /\ Purchase(i, e)

SpecShop == InitShop /\ [][NextShop]_vars

---------------------------------------------------------------------------
(* SpecDraws: a short game in which every draw takes several values: the   *)
(* shuffle and the sexes of the market, the three rolls of each animal,    *)
(* the popularity offset, the special-visitor roll and count, the sex of   *)
(* the newborn.                                                            *)

MaxDayDraws == 3

MaxDrawAnimals == 3

MaxDrawBirths == 1

MaxDrawRefreshes == 1

\* random(-10, 10): the offsets drawn.
DrawOffsets == {-10, 0}

\* random(0, 99): the special-visitor rolls drawn: none, and a celebrity.
DrawRolls == {0, 20}

\* The draws of the three per-animal rolls of a day-advance.
RollDraws ==
    RollFns(Len(animals), AgeRelevant, LowHigh)
      \X RollFns(Len(animals), 1..Len(animals), LowHigh)
      \X RollFns(Len(animals), StarveRelevant, LowHigh)

InitDraws == Init(ShuffleId, SexHalves)

NextDraws ==
    \/ \E i \in Wanted({"Olen'"}) :
         Len(animals) < MaxDrawAnimals - MaxDrawBirths /\ animalsBoughtToday = 0 /\ Purchase(i, 1)
    \/ \E i \in 1..MaxDrawAnimals : day = MaxDayDraws /\ Sell(i)
    \/ \E g \in 0..1 : Births < MaxDrawBirths /\ Breed(1, 2, g)
    \/ \E sh \in {ShuffleId, ShuffleRev} :
         Refreshes < MaxDrawRefreshes /\ animals = <<>> /\ PaidRefresh(sh, SexAllFemale)
    \/ \E r \in RollDraws, offset \in DrawOffsets, roll \in DrawRolls :
       \E count \in SpecialCounts(roll) :
         day < MaxDayDraws /\ NextDay(ShuffleRev, SexAllFemale, r[1], r[2], r[3], offset, roll, count)

SpecDraws == InitDraws /\ [][NextDraws]_vars

---------------------------------------------------------------------------
(* SpecLedger: two days on which the player uses every action of every     *)
(* menu at least once, spending the cash down until a day-advance ends the *)
(* game.                                                                   *)

MaxDayLedger == 2

MaxLedgerAnimals == 2

MaxLedgerEnclosures == 2

MaxLedgerWorkers == 5

InitLedger == Init(ShuffleId, SexHalves)

NextLedger ==
    \/ \E i \in Wanted({"Olen'"}) : Len(animals) < MaxLedgerAnimals /\ Purchase(i, 1)
    \/ day = MaxDayLedger /\ Sell(1)
    \/ \E g \in 0..1 : Len(animals) = MaxLedgerAnimals /\ Births = 0 /\ Breed(1, 2, g)
    \/ Len(enclosures) < MaxLedgerEnclosures /\ Build(1, "HERBIVORE", "TEMPERATE")
    \/ food = 100 /\ BuyFood(600)
    \/ popularity = 50 * PopScale /\ Advertise(238)
    \/ Refreshes = 0 /\ animals = <<>> /\ PaidRefresh(ShuffleId, SexHalves)
    \/ loans = <<>> /\ money < 200 /\ Borrow(200, 1)
    \/ Len(workers) < MaxLedgerWorkers /\ day = 1 /\ Hire("n", 2, <<1>>)
    \/ Len(workers) = MaxLedgerWorkers /\ Fire(MaxLedgerWorkers)
    \/ day = MaxDayLedger /\ Assign(2, 1, 1)
    \/ day <= MaxDayLedger
         /\ NextDay(ShuffleId, SexAllFemale, SameRoll(Len(animals), 99),
                    SameRoll(Len(animals), 99), SameRoll(Len(animals), 99), 0, 0, 0)

SpecLedger == InitLedger /\ [][NextLedger]_vars

---------------------------------------------------------------------------
(* SpecRoster: a deer is bought, a worker of any role is hired onto its    *)
(* enclosure, any worker is assigned there through the assign action, and  *)
(* the days pass with every animal or none falling sick.                   *)

MaxDayRoster == 3

MaxRosterHires == 1

MaxRosterAssignDays == 2

InitRoster == Init(ShuffleId, SexAlternate)

NextRoster ==
    \/ \E i \in Wanted({"Olen'"}) : day = 1 /\ animals = <<>> /\ Purchase(i, 1)
    \/ \E posChoice \in 1..3, ids \in {<<>>, <<1>>} :
         Len(workers) < 4 + MaxRosterHires /\ animals # <<>> /\ Hire("new", posChoice, ids)
    \/ \E w \in 2..(4 + MaxRosterHires), d \in 1..MaxRosterAssignDays : Assign(w, 1, d)
    \/ \E sickRoll \in {SameRoll(Len(animals), 99), SameRoll(Len(animals), 0)} :
         /\ day < MaxDayRoster
         /\ NextDay(ShuffleId, SexAlternate, SameRoll(Len(animals), 99), sickRoll,
                    SameRoll(Len(animals), 99), 0, 0, 0)

SpecRoster == InitRoster /\ [][NextRoster]_vars

---------------------------------------------------------------------------
(* Properties                                                              *)

IdsOf(anims) == {anims[i].uniqueId : i \in 1..Len(anims)}

\* 1 unit per herbivore, 2 per carnivore, over the animals at the positions idx.
Demand(anims, idx) ==
    Cardinality({i \in idx : anims[i].type = "HERBIVORE"})
      + 2 * Cardinality({i \in idx : anims[i].type = "CARNIVORE"})

DayAdvance == day' = day + 1

\* C1: every resident of an enclosure, in the enclosure's own list and in the
\* registry, has the enclosure's diet class and climate, and no enclosure
\* holds more residents than its capacity.
C1_Placement ==
    /\ \A k \in 1..Len(enclosures) :
         /\ Len(enclosures[k].animals) <= enclosures[k].capacity
         /\ \A j \in 1..Len(enclosures[k].animals) :
              /\ enclosures[k].animals[j].type = enclosures[k].animalType
              /\ enclosures[k].animals[j].preferredClimate = enclosures[k].climate
    /\ \A i \in 1..Len(animals) : \A k \in 1..Len(enclosures) :
         animals[i].enclosureId = enclosures[k].id =>
           /\ animals[i].type = enclosures[k].animalType
           /\ animals[i].preferredClimate = enclosures[k].climate

\* An enclosure is full while an animal born in the zoo lives in another one.
C1_Witness ==
    /\ \E k \in 1..Len(enclosures) : Len(enclosures[k].animals) = enclosures[k].capacity
    /\ \E i \in 1..Len(animals) : animals[i].isBornInZoo

\* C2: the registry and the enclosures agree: every animal of the registry is
\* a resident of exactly one enclosure, once, and that enclosure is the one its
\* enclosure reference names; every resident of an enclosure is in the registry.
C2_Residency ==
    /\ \A i \in 1..Len(animals) :
         LET homes == {k \in 1..Len(enclosures) :
                         animals[i].uniqueId \in IdsOf(enclosures[k].animals)} IN
         /\ Cardinality(homes) = 1
         /\ \A k \in homes :
              /\ enclosures[k].id = animals[i].enclosureId
              /\ Cardinality({j \in 1..Len(enclosures[k].animals) :
                                enclosures[k].animals[j].uniqueId = animals[i].uniqueId}) = 1
    /\ \A k \in 1..Len(enclosures) : IdsOf(enclosures[k].animals) \subseteq IdsOf(animals)
    /\ Cardinality(IdsOf(animals)) = Len(animals)

\* A day on which some animals starved and others, one of them born in the zoo, live on.
C2_Witness ==
    /\ lastOp.op = "nextDay"
    /\ lastOp.hunger # <<>>
    /\ \E i \in 1..Len(animals) : animals[i].isBornInZoo

\* C3: a day-advance changes cash by visitors x animals (counted after the
\* day's deaths) less the salaries, the upkeep and the repayments of the loans
\* with days left; the first day-advance of the zoo as constructed leaves 1298.
C3_CashDelta ==
    [][DayAdvance =>
        /\ money' = money + visitors' * Len(animals')
                      - SumSeq([j \in 1..Len(workers) |-> workers[j].salary])
                      - SumSeq([k \in 1..Len(enclosures) |-> enclosures[k].dailyCost])
                      - SumSeq([i \in 1..Len(loans) |->
                                  IF loans[i].daysLeft > 0 THEN loans[i].dailyRepayment ELSE 0])
        /\ totalAnimals' = Len(animals')
        /\ (money = 1488 /\ animals = <<>> /\ loans = <<>> /\ Len(workers) = 4
              /\ Len(enclosures) = 1) => money' = 1298
      ]_vars

\* A day with deaths, survivors, visitors and a loan still running.
C3_Witness ==
    /\ lastOp.op = "nextDay"
    /\ lastOp.hunger # <<>>
    /\ totalAnimals > 0
    /\ visitors > 0
    /\ loans # <<>>

\* C4: in a day-advance, a stock that covers the demand of the animals left
\* after old age goes down by that demand and nobody starves; a stock that does
\* not is left as it is and only animals alive at the feeding are removed; the
\* stock is never negative.
C4_Feeding ==
    /\ [](food >= 0)
    /\ [][DayAdvance =>
            LET atFeeding == {i \in 1..Len(animals) :
                                animals[i].uniqueId \notin Range(lastOp'.oldAge)}
                demand == Demand(animals, atFeeding)
                aliveIds == {animals[i].uniqueId : i \in atFeeding}
                hungerIds == Range(lastOp'.hunger) IN
            /\ food >= demand =>
                 /\ food' = food - demand
                 /\ lastOp'.hunger = <<>>
                 /\ IdsOf(animals') = aliveIds
            /\ food < demand =>
                 /\ food' = food
                 /\ hungerIds \subseteq aliveIds
                 /\ IdsOf(animals') = aliveIds \ hungerIds
         ]_vars

\* A day on which the stock did not cover the demand: it is still there, one
\* animal starved, the others live.
C4_Witness ==
    /\ lastOp.op = "nextDay"
    /\ Len(lastOp.hunger) = 1
    /\ food > 0
    /\ Len(animals) > 1

\* The loans of ls a day later: each one day shorter, those at 0 gone.
ADayLater(ls) ==
    SelectSeq([i \in 1..Len(ls) |-> [ls[i] EXCEPT !.daysLeft = @ - 1]],
              LAMBDA l : l.daysLeft > 0)

\* C5: a loan of principal p and term d repays (p + p x 0.005 x d) / d a day
\* (105 for p = 1000, d = 10, 1050 in all); it starts with d days left; every
\* day-advance debits each active loan once, shortens it by a day and drops it
\* when no day is left, reporting it as paid off.
C5_LoanRepayment ==
    /\ [](\A i \in 1..Len(loans) :
            /\ loans[i].dailyRepayment * loans[i].days * 1000
                 = loans[i].principal * (1000 + 5 * loans[i].days)
            /\ (loans[i].principal = 1000 /\ loans[i].days = 10) =>
                 (loans[i].dailyRepayment = 105 /\ loans[i].dailyRepayment * loans[i].days = 1050))
    /\ [][(lastOp'.op = "borrow" /\ loans' # loans) =>
            /\ Len(loans') = Len(loans) + 1
            /\ SubSeq(loans', 1, Len(loans)) = loans
            /\ loans'[Len(loans')].principal = lastOp'.in[1]
            /\ loans'[Len(loans')].days = lastOp'.in[2]
            /\ loans'[Len(loans')].daysLeft = lastOp'.in[2]
         ]_vars
    /\ [][DayAdvance =>
            /\ loans' = ADayLater(loans)
            /\ money + visitors' * Len(animals')
                 - SumSeq([j \in 1..Len(workers) |-> workers[j].salary])
                 - SumSeq([k \in 1..Len(enclosures) |-> enclosures[k].dailyCost])
                 - money'
                 = SumSeq([i \in 1..Len(loans) |-> loans[i].dailyRepayment])
            /\ Len(lastOp'.paidOff) = Cardinality({i \in 1..Len(loans) : loans[i].daysLeft = 1})
         ]_vars

\* The loan of 1000 over 10 days has just been paid off, ten days after day 1
\* at the earliest, and the game goes on.
C5_Witness ==
    /\ lastOp.op = "nextDay"
    /\ lastOp.paidOff = <<1000>>
    /\ day >= 11
    /\ phase = "playing"

\* C6: every active loan has between 1 and term days left; only a day-advance
\* changes the days left of a loan, by exactly 1, and no loan with no day left
\* outlives it.
C6_LoanDays ==
    /\ [](\A i \in 1..Len(loans) : 0 < loans[i].daysLeft /\ loans[i].daysLeft <= loans[i].days)
    /\ [][IF DayAdvance
          THEN /\ Len(loans') = Cardinality({i \in 1..Len(loans) : loans[i].daysLeft > 1})
               /\ \A i \in 1..Len(loans') : \E j \in 1..Len(loans) :
                    /\ loans'[i].daysLeft = loans[j].daysLeft - 1
                    /\ loans'[i].principal = loans[j].principal
                    /\ loans'[i].days = loans[j].days
          ELSE /\ Len(loans') >= Len(loans)
               /\ \A i \in 1..Len(loans) : loans'[i] = loans[i]
         ]_vars

\* A loan is on its last day while a longer one runs beside it.
C6_Witness ==
    /\ \E i \in 1..Len(loans) : loans[i].daysLeft = 1 /\ loans[i].days > 1
    /\ \E i \in 1..Len(loans) : loans[i].daysLeft > 1

\* The animals in the enclosures whose identities are in a worker's assignment set.
Load(w) ==
    LET mine == {k \in 1..Len(enclosures) : enclosures[k].id \in Range(w.assignedEnclosures)} IN
    SumSeq([k \in 1..Len(enclosures) |-> IF k \in mine THEN Len(enclosures[k].animals) ELSE 0])

\* C7: a veterinarian is not given an enclosure whose residents, added to those
\* of the enclosures it already holds, exceed its capacity limit: no step other
\* than a day-advance adds such an enclosure to its assignment set.
C7_VetLimitDeclines ==
    [][\A w \in 1..Len(workers) : \A k \in 1..Len(enclosures) :
          (/\ day' = day
           /\ Len(workers') = Len(workers)
           /\ workers[w].type = "VETERINARIAN"
           /\ enclosures[k].id \notin Range(workers[w].assignedEnclosures)
           /\ Load(workers[w]) + Len(enclosures[k].animals) > workers[w].maxAnimals)
          => /\ enclosures[k].id \notin Range(workers'[w].assignedEnclosures)
             /\ workers'[w].daysAssigned = workers[w].daysAssigned
      ]_vars

\* C8: the animals in a veterinarian's assigned enclosures never exceed its
\* capacity limit.
C8_VetCapacity ==
    \A w \in 1..Len(workers) :
        workers[w].type = "VETERINARIAN" => Load(workers[w]) <= workers[w].maxAnimals

\* C9: a cleaner holds at most 1 assignment, a feeder at most 2, and no
\* assignment set names an enclosure twice.
C9_AssignmentCaps ==
    \A w \in 1..Len(workers) :
        /\ workers[w].type = "CLEANER" => Len(workers[w].assignedEnclosures) <= 1
        /\ workers[w].type = "FEEDER" => Len(workers[w].assignedEnclosures) <= 2
        /\ Cardinality(Range(workers[w].assignedEnclosures)) = Len(workers[w].assignedEnclosures)

\* After an assignment a feeder holds two enclosures and a cleaner one, both
\* with days of assignment left.
C9_Witness ==
    /\ lastOp.op = "assign"
    /\ \E w \in 1..Len(workers) :
         /\ workers[w].type = "FEEDER"
         /\ Len(workers[w].assignedEnclosures) = 2
         /\ workers[w].daysAssigned > 0
    /\ \E w \in 1..Len(workers) :
         /\ workers[w].type = "CLEANER"
         /\ Len(workers[w].assignedEnclosures) = 1
         /\ workers[w].daysAssigned > 0

\* C10: exactly one worker is the director, the collection is not empty, and
\* the director holds no assignment and no days of assignment.
C10_OneDirector ==
    /\ workers # <<>>
    /\ Cardinality({w \in 1..Len(workers) : workers[w].type = "DIRECTOR"}) = 1
    /\ \A w \in 1..Len(workers) :
         workers[w].type = "DIRECTOR" =>
           workers[w].assignedEnclosures = <<>> /\ workers[w].daysAssigned = 0

\* Everybody but the director has been fired, a hired worker among them.
C10_Witness ==
    /\ lastOp.op = "fire"
    /\ Len(workers) = 1
    /\ nextId > 1 + Len(Catalog)

\* C11: a step that shortens the worker collection is a firing of a worker
\* that is not the director, out of a collection of more than one; it removes
\* exactly the chosen worker, keeps the others in order, and leaves the
\* animals, the enclosures and the cash alone.
C11_Firing ==
    [][Len(workers') < Len(workers) =>
         /\ lastOp'.op = "fire"
         /\ Len(workers) > 1
         /\ LET i == lastOp'.in[1] IN
            /\ i \in 1..Len(workers)
            /\ workers[i].type # "DIRECTOR"
            /\ Len(workers') = Len(workers) - 1
            /\ \A k \in 1..Len(workers') :
                 workers'[k] = IF k < i THEN workers[k] ELSE workers[k + 1]
         /\ UNCHANGED <<animals, enclosures, money, totalAnimals>>
      ]_vars

\* The cleaner, second of four, has been fired: the veterinarian and the
\* feeder have moved up, and a deer lives in the zoo.
C11_Witness ==
    /\ lastOp.op = "fire"
    /\ lastOp.in = <<2>>
    /\ Len(workers) = 3
    /\ workers[2].type = "VETERINARIAN"
    /\ workers[3].type = "FEEDER"
    /\ animals # <<>>

\* C12: outside a day-advance, the assignment set or the remaining duration of
\* a worker changes only by an assignment of that worker to an existing
\* enclosure it did not hold, with its count below the cap of its role (cleaner
\* 1, feeder 2); the step adds exactly that enclosure and sets the duration to
\* the days given.
C12_Assignment ==
    [][\A w \in 1..Len(workers) :
         (/\ day' = day
          /\ Len(workers') = Len(workers)
          /\ \/ workers'[w].assignedEnclosures # workers[w].assignedEnclosures
             \/ workers'[w].daysAssigned # workers[w].daysAssigned)
         => /\ lastOp'.op = "assign"
            /\ lastOp'.in[1] = w
            /\ LET e == lastOp'.in[2]
                   old == workers[w].assignedEnclosures
                   new == workers'[w].assignedEnclosures IN
               /\ e \notin Range(old)
               /\ \E k \in 1..Len(enclosures) : enclosures[k].id = e
               /\ workers[w].type = "CLEANER" => Len(old) < 1
               /\ workers[w].type = "FEEDER" => Len(old) < 2
               /\ Range(new) = Range(old) \cup {e}
               /\ Len(new) = Len(old) + 1
               /\ workers'[w].daysAssigned = lastOp'.in[3]
      ]_vars

\* A feeder has just been given its second enclosure for two days, while the
\* cleaner holds none.
C12_Witness ==
    /\ lastOp.op = "assign"
    /\ lastOp.in[3] = 2
    /\ lastOp.in[1] \in 1..Len(workers)
    /\ workers[lastOp.in[1]].type = "FEEDER"
    /\ Len(workers[lastOp.in[1]].assignedEnclosures) = 2
    /\ workers[lastOp.in[1]].daysAssigned = 2
    /\ \E w \in 1..Len(workers) :
         workers[w].type = "CLEANER" /\ workers[w].assignedEnclosures = <<>>

\* C15: a day-advance removes no worker; every worker has worked one day more,
\* has one day of assignment less if it had any, keeps its assignment set when
\* days of assignment are left after that, and holds no enclosure when none is.
C15_WorkerDay ==
    [][DayAdvance =>
         /\ Len(workers') = Len(workers)
         /\ \A w \in 1..Len(workers) :
              /\ workers'[w].daysWorked = workers[w].daysWorked + 1
              /\ workers'[w].daysAssigned =
                   IF workers[w].daysAssigned > 0 THEN workers[w].daysAssigned - 1
                   ELSE workers[w].daysAssigned
              /\ workers'[w].daysAssigned > 0 =>
                   workers'[w].assignedEnclosures = workers[w].assignedEnclosures
              /\ workers'[w].daysAssigned = 0 => workers'[w].assignedEnclosures = <<>>
              /\ workers'[w].name = workers[w].name
              /\ workers'[w].type = workers[w].type
              /\ workers'[w].salary = workers[w].salary
              /\ workers'[w].maxAnimals = workers[w].maxAnimals
      ]_vars

\* After the second day-advance one worker still holds two enclosures with a
\* day left while another, two days at work, holds none.
C15_Witness ==
    /\ lastOp.op = "nextDay"
    /\ day = 3
    /\ \E w \in 1..Len(workers) :
         /\ workers[w].daysAssigned = 1
         /\ Len(workers[w].assignedEnclosures) = 2
    /\ \E w \in 1..Len(workers) :
         /\ workers[w].type # "DIRECTOR"
         /\ workers[w].daysWorked = 2
         /\ workers[w].daysAssigned = 0
         /\ workers[w].assignedEnclosures = <<>>

\* A step that adds an animal to the zoo and charges nothing: a birth.
Birth == money' = money /\ Len(animals') > Len(animals)

\* C13: breeding two animals of different enclosures, of the same sex, or of
\* which one is 5 days old or younger changes nothing: the registry, the
\* enclosures, the animal counter and the next identity change without a
\* purchase, a sale or a day-advance only when the pair bred is in one
\* enclosure, of opposite sexes and both older than 5 days.
C13_BreedDeclined ==
    [][(/\ money' = money
        /\ day' = day
        /\ \/ animals' # animals
           \/ [k \in 1..Len(enclosures) |-> enclosures[k].animals]
                # [k \in 1..Len(enclosures') |-> enclosures'[k].animals]
           \/ totalAnimals' # totalAnimals
           \/ nextId' # nextId)
       => /\ lastOp'.op = "breed"
          /\ lastOp'.in[1] \in 1..Len(animals)
          /\ lastOp'.in[2] \in 1..Len(animals)
          /\ LET a == animals[lastOp'.in[1]]
                 b == animals[lastOp'.in[2]] IN
             /\ a.enclosureId = b.enclosureId
             /\ a.gender # b.gender
             /\ a.ageDays > 5
             /\ b.ageDays > 5
      ]_vars

\* A birth has happened, and the newborn shares an enclosure that has room
\* with a parent of the opposite sex: the pair is refused for its age alone.
C13_Witness ==
    /\ lastOp.op = "breed"
    /\ \E i \in 1..Len(animals), j \in 1..Len(animals) :
         /\ animals[i].isBornInZoo
         /\ animals[i].ageDays <= 5
         /\ animals[j].ageDays > 5
         /\ animals[i].gender # animals[j].gender
         /\ animals[i].enclosureId = animals[j].enclosureId
         /\ \E k \in 1..Len(enclosures) :
              /\ enclosures[k].id = animals[i].enclosureId
              /\ Len(enclosures[k].animals) < enclosures[k].capacity

\* C14: a birth adds one animal at the end of the registry and of the first
\* parent's enclosure: age 0, male or female, a quarter of the parents' summed
\* weight, half their summed price rounded down, the first parent's diet
\* class, climate and enclosure, born in the zoo, not sick; the counter rises
\* by 1; the parents, the other enclosures and the cash are unchanged.
C14_Newborn ==
    [][Birth =>
         /\ lastOp'.op = "breed"
         /\ LET a == animals[lastOp'.in[1]]
                b == animals[lastOp'.in[2]]
                n == animals'[Len(animals')] IN
            /\ animals' = Append(animals, n)
            /\ n.ageDays = 0
            /\ n.daysSincePurchase = 0
            /\ n.gender \in {"MALE", "FEMALE"}
            /\ n.weight * 4 = a.weight + b.weight
            /\ 2 * n.price <= a.price + b.price
            /\ a.price + b.price < 2 * n.price + 2
            /\ n.type = a.type
            /\ n.preferredClimate = a.preferredClimate
            /\ n.enclosureId = a.enclosureId
            /\ n.isBornInZoo
            /\ ~n.isSick
            /\ n.uniqueId = nextId
            /\ n.uniqueId \notin IdsOf(animals)
            /\ Len(enclosures') = Len(enclosures)
            /\ \A k \in 1..Len(enclosures) :
                 enclosures'[k] =
                   IF enclosures[k].id = a.enclosureId
                   THEN [enclosures[k] EXCEPT !.animals = Append(@, n)]
                   ELSE enclosures[k]
            /\ totalAnimals' = totalAnimals + 1
      ]_vars

\* The last animal of the registry was born of a hybrid and one of its parents:
\* the prices of the pair sum to an odd number.
C14_Witness ==
    /\ lastOp.op = "breed"
    /\ animals # <<>>
    /\ animals[Len(animals)].isBornInZoo
    /\ animals[Len(animals)].price \in {112, 137}
    /\ animals[Len(animals)].ageDays = 0

\* The veterinarians at work in the treatment step of the day-advance that
\* leads to the next state: those with days of assignment left after the
\* worker loop.
AtWork == {w \in 1..Len(workers') : workers'[w].type = "VETERINARIAN" /\ workers'[w].daysAssigned > 0}

\* The animals of the registry before the day-advance, by position, that are
\* reported sick at the treatment step and live in an enclosure of worker w.
SickInCare(w) ==
    {i \in 1..Len(animals) :
       /\ animals[i].uniqueId \in Range(lastOp'.sick)
       /\ animals[i].enclosureId \in Range(workers'[w].assignedEnclosures)}

\* C16: in a day-advance an animal sick at the treatment step is healed only
\* in an enclosure of a veterinarian with days of assignment left; such a
\* veterinarian heals no more animals than its limit, and leaves an animal of
\* its enclosures sick only after healing as many as its limit before it in
\* the registry; so with no more sick animals
\* in its enclosures than its limit, none of their animals is sick afterwards,
\* those fallen sick that day included; and no animal is sick afterwards that
\* was not sick at the treatment step.
C16_Treatment ==
    [][DayAdvance =>
         /\ \A j \in 1..Len(animals') :
              /\ animals'[j].isSick => animals'[j].uniqueId \in Range(lastOp'.sick)
              /\ (animals'[j].uniqueId \in Range(lastOp'.sick) /\ ~animals'[j].isSick) =>
                   \E w \in AtWork :
                     animals'[j].enclosureId \in Range(workers'[w].assignedEnclosures)
         /\ \A w \in AtWork :
              /\ \A i \in 1..Len(animals) :
                   (\E j \in 1..Len(animals') :
                      /\ animals'[j].uniqueId = animals[i].uniqueId
                      /\ animals'[j].isSick
                      /\ animals'[j].enclosureId \in Range(workers'[w].assignedEnclosures))
                   => Cardinality({k \in SickInCare(w) : k < i}) >= workers'[w].maxAnimals
              /\ Cardinality({j \in 1..Len(animals') :
                     /\ animals'[j].uniqueId \in Range(lastOp'.sick)
                     /\ ~animals'[j].isSick
                     /\ animals'[j].enclosureId \in Range(workers'[w].assignedEnclosures)
                     /\ \A v \in AtWork \ {w} :
                          animals'[j].enclosureId \notin Range(workers'[v].assignedEnclosures)})
                   <= workers'[w].maxAnimals
              /\ Cardinality(SickInCare(w)) <= workers'[w].maxAnimals =>
                   \A j \in 1..Len(animals') :
                     animals'[j].enclosureId \in Range(workers'[w].assignedEnclosures)
                       => ~animals'[j].isSick
         /\ AtWork = {} =>
              \A j \in 1..Len(animals') :
                animals'[j].isSick <=> animals'[j].uniqueId \in Range(lastOp'.sick)
      ]_vars

\* All 21 animals of the herd were sick at the treatment step; the
\* veterinarian, at work, healed the first 20 of the registry and left the last.
C16_Witness ==
    /\ lastOp.op = "nextDay"
    /\ Len(lastOp.sick) = 21
    /\ Len(animals) = 21
    /\ workers[3].type = "VETERINARIAN"
    /\ workers[3].daysAssigned > 0
    /\ workers[3].assignedEnclosures = <<2>>
    /\ \A i \in 1..20 : ~animals[i].isSick
    /\ animals[21].isSick

\* The ages the old-age test is tried on, beyond those a game reaches.
MaxRollAge == 101

\* C17: in a day-advance every surviving animal is one day older and one day
\* longer in the zoo; an animal dies of old age only if its age after the
\* increment is above 30, and always if it is above 99; the test itself never
\* removes at 30 or below, always removes above 99, and for every age between
\* has a roll that removes and a roll that spares (a fact of the test alone,
\* the same in every state); an old-age death takes the
\* animal out of the registry and of its enclosure and lowers the counter by 1.
C17_OldAge ==
    /\ (\A age \in 0..MaxRollAge :
            LET a == [ageDays |-> age] IN
            /\ age <= 30 => \A roll \in 0..99 : ~DiesOfAge(a, roll)
            /\ age > 99 => \A roll \in 0..99 : DiesOfAge(a, roll)
            /\ (age > 30 /\ age <= 99) =>
                 /\ \E roll \in 0..99 : DiesOfAge(a, roll)
                 /\ \E roll \in 0..99 : ~DiesOfAge(a, roll))
    /\ [][DayAdvance =>
            /\ \A i \in 1..Len(animals) :
                 /\ animals[i].uniqueId \in Range(lastOp'.oldAge) => animals[i].ageDays + 1 > 30
                 /\ animals[i].ageDays + 1 > 99 => animals[i].uniqueId \in Range(lastOp'.oldAge)
                 /\ \A j \in 1..Len(animals') :
                      animals'[j].uniqueId = animals[i].uniqueId =>
                        /\ animals'[j].ageDays = animals[i].ageDays + 1
                        /\ animals'[j].daysSincePurchase = animals[i].daysSincePurchase + 1
            /\ Range(lastOp'.oldAge) \subseteq IdsOf(animals)
            /\ Range(lastOp'.oldAge) \cap IdsOf(animals') = {}
            /\ \A k \in 1..Len(enclosures') :
                 Range(lastOp'.oldAge) \cap IdsOf(enclosures'[k].animals) = {}
            /\ Cardinality(Range(lastOp'.oldAge)) = Len(lastOp'.oldAge)
            /\ totalAnimals' = totalAnimals - Len(lastOp'.oldAge) - Len(lastOp'.hunger)
         ]_vars

\* An animal has just died of old age while others, aged with it, live on.
C17_Witness ==
    /\ lastOp.op = "nextDay"
    /\ lastOp.oldAge # <<>>
    /\ lastOp.hunger = <<>>
    /\ animals # <<>>
    /\ \A i \in 1..Len(animals) : animals[i].daysSincePurchase > 0

\* The popularity of the day-advance that leads to the next state, after the
\* offset lastOp'.in[1] is applied, the animals then sick are subtracted and
\* the result is floored at 0: what the visitors are counted from.
BeforeBonus ==
    LET sickNow == Cardinality({j \in 1..Len(animals') : animals'[j].isSick})
        drifted == (popularity * (100 + lastOp'.in[1])) \div 100 - sickNow * PopScale IN
    IF drifted < 0 THEN 0 ELSE drifted

\* The bonus of the special visitors of the next state.
BonusAfter ==
    IF specialVisitorType' = "Celebrity" THEN specialVisitorCount' * 10
    ELSE IF specialVisitorType' = "Photographer" THEN specialVisitorCount' * 5
    ELSE 0

\* C18: popularity is never negative; in a day-advance the visitors are the
\* whole part of the popularity rescaled by an offset between -10 and 10 per
\* cent, less the animals sick after treatment and starvation, floored at 0;
\* the bonus of the special visitors is added to the popularity after the
\* visitors are counted.
C18_Visitors ==
    /\ [](popularity >= 0)
    /\ [][DayAdvance =>
            /\ lastOp'.in[1] \in -10..10
            /\ visitors' = BeforeBonus \div PopScale
            /\ popularity' = BeforeBonus + BonusAfter * PopScale
         ]_vars

\* The sick crowd has brought the popularity to 0 and the visitors with it,
\* and a celebrity's bonus is all the popularity there is.
C18_Witness ==
    /\ lastOp.op = "nextDay"
    /\ visitors = 0
    /\ specialVisitorType = "Celebrity"
    /\ popularity = specialVisitorCount * 10 * PopScale
    /\ \E i \in 1..Len(animals) : animals[i].isSick

\* C19: the special-visitor roll r of a day-advance is in 0..99; below 20 and
\* from 50 on there are no special visitors and no bonus; from 20 to 29 one or
\* two celebrities come and the popularity gains 10 each; from 30 to 49 one to
\* three photographers come and it gains 5 each.
C19_SpecialVisitors ==
    [][DayAdvance =>
         LET r == lastOp'.in[2] IN
         /\ r \in 0..99
         /\ (r < 20 \/ r >= 50) =>
              /\ specialVisitorType' = "None"
              /\ specialVisitorCount' = 0
              /\ popularity' = BeforeBonus
         /\ (r >= 20 /\ r < 30) =>
              /\ specialVisitorType' = "Celebrity"
              /\ specialVisitorCount' \in {1, 2}
              /\ popularity' = BeforeBonus + specialVisitorCount' * 10 * PopScale
         /\ (r >= 30 /\ r < 50) =>
              /\ specialVisitorType' = "Photographer"
              /\ specialVisitorCount' \in {1, 2, 3}
              /\ popularity' = BeforeBonus + specialVisitorCount' * 5 * PopScale
      ]_vars

\* The roll was 49, the last of the photographers' range, and three came.
C19_Witness ==
    /\ lastOp.op = "nextDay"
    /\ lastOp.in[2] = 49
    /\ specialVisitorType = "Photographer"
    /\ specialVisitorCount = 3

\* C20: only a day-advance changes the day, by exactly 1; it sets the day's
\* purchases to 0, replaces the market by ten offers with identities not
\* issued before, and leaves no special visitors of the day before: without a
\* roll between 20 and 49 the kind is none and the count 0.
C20_DayStart ==
    /\ [][day' # day => (DayAdvance /\ lastOp'.op = "nextDay")]_vars
    /\ [][DayAdvance =>
            /\ animalsBoughtToday' = 0
            /\ Len(marketAnimals') = MarketSize
            /\ IdsOf(marketAnimals') \subseteq nextId..(nextId + Len(Catalog) - 1)
            /\ Cardinality(IdsOf(marketAnimals')) = MarketSize
            /\ nextId' = nextId + Len(Catalog)
            /\ \A i \in 1..Len(marketAnimals') :
                 /\ marketAnimals'[i].enclosureId = -1
                 /\ marketAnimals'[i].daysSincePurchase = 0
                 /\ ~marketAnimals'[i].isSick
            /\ (lastOp'.in[2] < 20 \/ lastOp'.in[2] >= 50) =>
                 (specialVisitorType' = "None" /\ specialVisitorCount' = 0)
         ]_vars

\* Day 3 has begun with a roll of 99 and no special visitors, on a popularity
\* that holds a bonus of day 2; two animals were bought on day 1, and the
\* market is full again.
C20_Witness ==
    /\ lastOp.op = "nextDay"
    /\ day = 3
    /\ lastOp.in[2] = 99
    /\ specialVisitorType = "None"
    /\ popularity = 7000
    /\ Len(animals) = 2
    /\ animalsBoughtToday = 0
    /\ Len(marketAnimals) = MarketSize

\* A list of min(10, catalog size) offers, no species twice.
FullMarket(m) ==
    /\ Len(m) = Min(MarketSize, Len(Catalog))
    /\ \A i \in 1..Len(m) : \A j \in 1..Len(m) : i # j => m[i].species # m[j].species

\* The steps that remake the market: a day-advance and a paid refresh.
MarketRemade == DayAdvance \/ (lastOp'.op = "refresh" /\ money' = money - RefreshFee)

\* C21: as constructed, after every day-advance and after every paid refresh
\* the market holds exactly ten offers with no species twice, and none of
\* them is an offer of the list before, however many of those were bought.
C21_MarketRefresh ==
    /\ [](lastOp.op = "create" => FullMarket(marketAnimals))
    /\ [][MarketRemade =>
            /\ FullMarket(marketAnimals')
            /\ IdsOf(marketAnimals') \cap IdsOf(marketAnimals) = {}
            /\ \A i \in 1..Len(marketAnimals') :
                 /\ marketAnimals'[i].uniqueId >= nextId
                 /\ marketAnimals'[i].enclosureId = -1
         ]_vars

\* A paid refresh on a day with a purchase: the gap the purchase left is gone.
C21_Witness ==
    /\ lastOp.op = "refresh"
    /\ animalsBoughtToday >= 1
    /\ Len(animals) >= 1
    /\ Len(marketAnimals) = MarketSize

\* The purchases of today still in the registry.
BoughtToday == {i \in 1..Len(animals) : animals[i].daysSincePurchase = 0 /\ ~animals[i].isBornInZoo}

\* The only step that takes an offer off the market.
PurchaseStep == Len(marketAnimals') = Len(marketAnimals) - 1

\* The purchase of offer i into the enclosure at position k goes through.
Buys(i, k) == Purchase(i, enclosures[k].id) /\ PurchaseStep

\* C22: after day 10 at most one animal is bought a day: with one bought, no
\* purchase goes through and the attempt changes nothing; up to day 10 every
\* offer the cash covers goes into every enclosure that can take it, however
\* many were bought that day.
C22_PurchaseLimit ==
    /\ [](day > 10 => (animalsBoughtToday <= 1 /\ Cardinality(BoughtToday) <= 1))
    /\ [][PurchaseStep => ~(day > 10 /\ animalsBoughtToday >= 1)]_vars
    /\ []((Playing /\ day > 10 /\ animalsBoughtToday >= 1) =>
            \A i \in 0..Len(marketAnimals) : \A e \in 1..BackId :
               ~ENABLED (Purchase(i, e) /\ vars' # vars))
    /\ []((Playing /\ day <= 10) =>
            \A i \in 1..Len(marketAnimals) : \A k \in 1..Len(enclosures) :
               (money >= marketAnimals[i].price /\ canAddAnimal(enclosures[k], marketAnimals[i]))
                  => ENABLED Buys(i, k))

\* A day after day 10 with one animal bought, cash and room for an offer
\* still on the market, and two animals in the registry that were bought
\* together on an earlier day.
C22_Witness ==
    /\ Playing
    /\ day > 10
    /\ animalsBoughtToday = 1
    /\ \E i \in 1..Len(marketAnimals) :
         money >= marketAnimals[i].price /\ canAddAnimal(enclosures[1], marketAnimals[i])
    /\ \E i \in 1..Len(animals) : \E j \in 1..Len(animals) :
         /\ i # j
         /\ animals[i].daysSincePurchase = animals[j].daysSincePurchase
         /\ animals[i].daysSincePurchase > 0

\* C23: a cash-costing action asked for with cash below its cost changes
\* nothing: a purchase (the price), a construction (capacity x 50), food (2 a
\* unit), advertising (the amount) and the paid refresh (50); so no debit of
\* these actions ever exceeds the cash.
C23_CashLow ==
    /\ [](Playing =>
            /\ \A i \in 1..Len(marketAnimals) : \A e \in 1..BackId :
                 money < marketAnimals[i].price => ~ENABLED (Purchase(i, e) /\ vars' # vars)
            /\ \A c \in BuildSizes \cup {Min(money \div 50 + 1, 100), 100} :
               \A t \in AnimalType : \A cl \in Climate :
                 money < c * 50 => ~ENABLED (Build(c, t, cl) /\ vars' # vars)
            /\ \A f \in FoodOrders \cup {money \div FoodPrice + 1, 10000} :
                 money < f * FoodPrice => ~ENABLED (BuyFood(f) /\ vars' # vars)
            /\ \A a \in AdBudgets \cup {money + 1, 10000} :
                 money < a => ~ENABLED (Advertise(a) /\ vars' # vars)
            /\ \A sh \in {ShuffleId, ShuffleRev} : \A sx \in {SexAllMale, SexAllFemale} :
                 money < RefreshFee => ~ENABLED (PaidRefresh(sh, sx) /\ vars' # vars))
    /\ [][(money' < money /\ ~DayAdvance) => money' >= 0]_vars

\* Cash that covers none of the five: below the refresh fee, the cheapest
\* enclosure and every offer of a full market.
C23_Witness ==
    /\ Playing
    /\ money > 0
    /\ money < RefreshFee
    /\ Len(marketAnimals) = MarketSize
    /\ \A i \in 1..Len(marketAnimals) : money < marketAnimals[i].price

\* C24: the game starts on day 1 and a day passes only while day <= 20; it is
\* lost exactly when a day-advance has left the cash negative and won exactly
\* when the day has passed 20 with the cash never negative; so at most 20
\* days pass, and nothing happens once the game is lost or won.
C24_TurnLoop ==
    /\ [](lastOp.op = "create" => (day = 1 /\ Playing))
    /\ [](day \in 1..(maxDays + 1))
    /\ [](Playing <=> (day <= maxDays /\ money >= 0))
    /\ [](phase = "lost" <=> money < 0)
    /\ [](phase = "won" <=> (day > maxDays /\ money >= 0))
    /\ [][Playing]_vars
    /\ [][DayAdvance => day <= maxDays]_vars
    /\ [][(money' < 0) => (DayAdvance /\ phase' = "lost")]_vars

\* The game is won on a loan taken on day 10 and not yet repaid.
C24_Witness ==
    /\ phase = "won"
    /\ day = maxDays + 1
    /\ loans # <<>>
    /\ Len(animals) >= 2

\* C25: no two animals of the registry share an identity, none shares one
\* with an offer on the market, and every identity in use was issued by the
\* counter; a purchased animal keeps the identity of its offer, a newborn
\* gets the counter's value, above every identity issued before, and no
\* other identity ever enters the registry.
C25_Identities ==
    /\ [](/\ Cardinality(IdsOf(animals)) = Len(animals)
          /\ Cardinality(IdsOf(marketAnimals)) = Len(marketAnimals)
          /\ IdsOf(animals) \cap IdsOf(marketAnimals) = {}
          /\ IdsOf(animals) \cup IdsOf(marketAnimals) \subseteq 1..(nextId - 1))
    /\ [][nextId' >= nextId]_vars
    /\ [][PurchaseStep =>
            /\ animals'[Len(animals')].uniqueId = marketAnimals[lastOp'.in[1]].uniqueId
            /\ IdsOf(animals') = IdsOf(animals) \cup {marketAnimals[lastOp'.in[1]].uniqueId}
            /\ IdsOf(marketAnimals') = IdsOf(marketAnimals) \ {marketAnimals[lastOp'.in[1]].uniqueId}
         ]_vars
    /\ [][Birth =>
            /\ animals'[Len(animals')].uniqueId = nextId
            /\ IdsOf(animals') = IdsOf(animals) \cup {nextId}
            /\ \A id \in IdsOf(animals) \cup IdsOf(marketAnimals) : nextId > id
            /\ nextId' = nextId + 1
         ]_vars
    /\ [][~(PurchaseStep \/ Birth) => IdsOf(animals') \subseteq IdsOf(animals)]_vars
    /\ [][\A i \in 1..Len(animals) : \A j \in 1..Len(animals') :
            animals'[j].uniqueId = animals[i].uniqueId =>
               /\ animals'[j].species = animals[i].species
               /\ animals'[j].gender = animals[i].gender
               /\ animals'[j].isBornInZoo = animals[i].isBornInZoo
         ]_vars

\* Two animals bought from different refreshes of the market and one born of
\* them, while the market has a gap.
C25_Witness ==
    /\ Len(animals) = 3
    /\ \E i \in 1..Len(animals) : animals[i].isBornInZoo
    /\ \E i \in 1..Len(animals) : \E j \in 1..Len(animals) :
         /\ ~animals[i].isBornInZoo /\ ~animals[j].isBornInZoo
         /\ animals[j].uniqueId > animals[i].uniqueId + Len(Catalog)
    /\ Len(marketAnimals) < MarketSize

\* The step taken is the only step A can take from its state: no step of A
\* ends in another state.
OnlyOutcome(A) == \A end \in {vars'} : A => ~ENABLED (A /\ vars' # end)

FullAt(id) == {k \in 1..Len(enclosures) :
                 enclosures[k].id = id /\ Len(enclosures[k].animals) >= enclosures[k].capacity}

\* C27: breeding asks the parents' enclosure for room first: with the
\* enclosure of the first parent full, no breeding of any pair changes
\* anything; every birth goes into an enclosure that had room, and no
\* enclosure ever holds more animals than its capacity.
C27_BreedRoom ==
    /\ [](\A k \in 1..Len(enclosures) : Len(enclosures[k].animals) <= enclosures[k].capacity)
    /\ [](Playing =>
            \A f \in 1..Len(animals) : \A s \in 1..Len(animals) : \A g \in 0..1 :
               FullAt(animals[f].enclosureId) # {} => ~ENABLED (Breed(f, s, g) /\ vars' # vars))
    /\ [][Birth =>
            \A k \in 1..Len(enclosures) :
               enclosures[k].id = animals'[Len(animals')].enclosureId =>
                  /\ Len(enclosures[k].animals) < enclosures[k].capacity
                  /\ Len(enclosures'[k].animals) = Len(enclosures[k].animals) + 1
         ]_vars

\* A full enclosure of two animals that could breed but for the room: of
\* opposite sexes and both older than 5 days.
C27_Witness ==
    /\ Playing
    /\ \E f \in 1..Len(animals) : \E s \in 1..Len(animals) :
         /\ f # s
         /\ animals[f].enclosureId = animals[s].enclosureId
         /\ ~BreedThrows(animals[f], animals[s])
         /\ FullAt(animals[f].enclosureId) # {}

\* The enclosures with the identity id that have room for the animal and
\* its diet class and climate.
Fits(animal, id) ==
    {k \in 1..Len(enclosures) :
       /\ enclosures[k].id = id
       /\ Len(enclosures[k].animals) < enclosures[k].capacity
       /\ enclosures[k].animalType = animal.type
       /\ enclosures[k].climate = animal.preferredClimate}

\* C28: a purchase goes through only with cash for the price and into an
\* enclosure that exists, has room and has the animal's diet class and
\* climate; it takes the offer off the market, puts the animal, with its
\* enclosure set, at the end of that enclosure and of the registry, debits
\* exactly the price and raises the animal counter and the day's purchase
\* counter by 1; into an enclosure that is missing, full or of another kind
\* no purchase changes anything.
C28_Purchase ==
    /\ [][PurchaseStep =>
            \E i \in {lastOp'.in[1]} : \E e \in {lastOp'.in[2]} :
            \E placed \in {[marketAnimals[i] EXCEPT !.enclosureId = e]} :
               /\ lastOp'.op = "purchase"
               /\ money >= marketAnimals[i].price
               /\ Cardinality(Fits(marketAnimals[i], e)) = 1
               /\ marketAnimals' = [j \in 1..(Len(marketAnimals) - 1) |->
                                      IF j < i THEN marketAnimals[j] ELSE marketAnimals[j + 1]]
               /\ animals' = Append(animals, placed)
               /\ Len(enclosures') = Len(enclosures)
               /\ \A k \in 1..Len(enclosures) :
                    enclosures'[k] =
                       IF k \in Fits(marketAnimals[i], e)
                       THEN [enclosures[k] EXCEPT !.animals = Append(@, placed)]
                       ELSE enclosures[k]
               /\ money' = money - marketAnimals[i].price
               /\ totalAnimals' = totalAnimals + 1
               /\ animalsBoughtToday' = animalsBoughtToday + 1
               /\ UNCHANGED <<food, popularity, workers, loans, day, visitors, nextId, phase>>
         ]_vars
    /\ [](Playing =>
            \A i \in 1..Len(marketAnimals) : \A e \in 1..(BackId + 1) :
               Fits(marketAnimals[i], e) = {} => ~ENABLED (Purchase(i, e) /\ vars' # vars))

\* A wolf has been bought into the carnivore enclosure, which is now full,
\* while the herbivore enclosure has room and the cash covers the deer on
\* the market.
C28_Witness ==
    /\ lastOp.op = "purchase"
    /\ Len(enclosures) = 2
    /\ Len(enclosures[2].animals) = enclosures[2].capacity
    /\ Len(enclosures[1].animals) < enclosures[1].capacity
    /\ animals[Len(animals)].species = "Volk"
    /\ animals[Len(animals)].enclosureId = 2
    /\ \E j \in 1..Len(marketAnimals) :
         /\ marketAnimals[j].species = "Olen'"
         /\ money >= marketAnimals[j].price

\* C29: the enclosures only grow in number and their identities rise in the
\* order of construction; a construction debits capacity x 50 and appends one
\* empty enclosure with the last identity + 1, the capacity, diet class and
\* climate entered and an upkeep of capacity x 2; no step changes the
\* identity, capacity, diet class, climate or upkeep of an enclosure.
C29_Enclosures ==
    /\ [](\A j \in 1..Len(enclosures) : \A k \in 1..Len(enclosures) :
            j < k => enclosures[j].id < enclosures[k].id)
    /\ [][Len(enclosures') >= Len(enclosures)]_vars
    /\ [][\A k \in 1..Len(enclosures) :
            /\ enclosures'[k].id = enclosures[k].id
            /\ enclosures'[k].capacity = enclosures[k].capacity
            /\ enclosures'[k].animalType = enclosures[k].animalType
            /\ enclosures'[k].climate = enclosures[k].climate
            /\ enclosures'[k].dailyCost = enclosures[k].dailyCost
         ]_vars
    /\ [][Len(enclosures') > Len(enclosures) =>
            /\ lastOp'.op = "build"
            /\ money >= lastOp'.in[1] * 50
            /\ money' = money - lastOp'.in[1] * 50
            /\ enclosures' = Append(enclosures,
                   [id |-> enclosures[Len(enclosures)].id + 1, capacity |-> lastOp'.in[1],
                    animalType |-> lastOp'.in[2], climate |-> lastOp'.in[3],
                    dailyCost |-> lastOp'.in[1] * 2, animals |-> <<>>])
            /\ UNCHANGED <<food, popularity, animals, workers, loans, day, visitors,
                           totalAnimals, marketAnimals, animalsBoughtToday, nextId, phase>>
         ]_vars

\* A day has passed over two enclosures, the one built holding an animal.
C29_Witness ==
    /\ lastOp.op = "nextDay"
    /\ Len(enclosures) = 2
    /\ enclosures[2].animals # <<>>
    /\ enclosures[1].animals # <<>>

\* C30: the animal counter is the number of animals in the registry and the
\* sum of the numbers of residents of the enclosures.
C30_AnimalCount ==
    /\ totalAnimals = Len(animals)
    /\ totalAnimals = SumSeq([k \in 1..Len(enclosures) |-> Len(enclosures[k].animals)])

\* A day on which animals died of old age and of hunger and others live on,
\* the herd having been short of its full size before.
C30_Witness ==
    /\ lastOp.op = "nextDay"
    /\ lastOp.oldAge # <<>>
    /\ lastOp.hunger # <<>>
    /\ totalAnimals > 0
    /\ totalAnimals < HerdCapacity - Len(lastOp.oldAge) - Len(lastOp.hunger)

\* C31: every enclosure identity in a worker's assignment set is the
\* identity of an enclosure of the zoo.
C31_AssignedExist ==
    \A w \in 1..Len(workers) :
       Range(workers[w].assignedEnclosures) \subseteq {enclosures[k].id : k \in 1..Len(enclosures)}

\* C32: no action of the player takes the cash below 0: a step other than a
\* day-advance that starts with cash of 0 or more ends with cash of 0 or
\* more, so the cash is negative only in a state a day-advance has just
\* produced.
C32_CashFloor ==
    /\ [][(money >= 0 /\ ~DayAdvance) => money' >= 0]_vars
    /\ [][(money' < 0 /\ money >= 0) => (DayAdvance /\ lastOp'.op = "nextDay")]_vars
    /\ [](money < 0 => lastOp.op = "nextDay")

\* The cash went on food, an enclosure and an animal, and the day-advance
\* that followed left it negative.
C32_Witness ==
    /\ money < 0
    /\ food > 100
    /\ Len(enclosures) = MaxLedgerEnclosures
    /\ animals # <<>>

\* The animals left by the day-advance that were sick at its treatment step
\* and live in an enclosure worker w held before it.
SickInOldCare(w) ==
    {j \in 1..Len(animals') :
       /\ animals'[j].uniqueId \in Range(lastOp'.sick)
       /\ animals'[j].enclosureId \in Range(workers[w].assignedEnclosures)}

\* C33: a veterinarian assigned for d days treats in the next d - 1
\* day-advances: a day-advance first lowers the remaining duration by 1 and
\* clears the assignments at 0, and only then treats; so with 1 day left
\* before the day-advance nothing in its enclosures is healed, with 2 or
\* more the sick in its enclosures, up to its limit, are; the first
\* day-advance after an assignment starts from the duration entered.
C33_VetDuration ==
    /\ [][(DayAdvance /\ lastOp.op = "assign") =>
            workers[lastOp.in[1]].daysAssigned = lastOp.in[3]]_vars
    /\ [][DayAdvance =>
            \A w \in 1..Len(workers) : workers[w].type = "VETERINARIAN" =>
               /\ workers'[w].daysAssigned =
                    IF workers[w].daysAssigned > 0 THEN workers[w].daysAssigned - 1 ELSE 0
               /\ workers[w].daysAssigned <= 1 =>
                    /\ workers'[w].assignedEnclosures = <<>>
                    /\ \A j \in SickInOldCare(w) :
                         (\A v \in AtWork :
                            animals'[j].enclosureId \notin Range(workers'[v].assignedEnclosures))
                         => animals'[j].isSick
               /\ workers[w].daysAssigned >= 2 =>
                    /\ workers'[w].assignedEnclosures = workers[w].assignedEnclosures
                    /\ Cardinality(SickInOldCare(w)) <= workers[w].maxAnimals =>
                         \A j \in SickInOldCare(w) : ~animals'[j].isSick
         ]_vars

\* The veterinarian was assigned to the herd's enclosure for 1 day on day 1:
\* the first day-advance cleared the assignment, and the animals that fell
\* sick in it are still sick.
C33_Witness ==
    /\ lastOp.op = "nextDay"
    /\ day = 2
    /\ 3 \in Range(lastOp.cleared)
    /\ lastOp.sick # <<>>
    /\ \E i \in 1..Len(animals) : animals[i].isSick /\ animals[i].enclosureId = 2

\* C34: a worker has one remaining duration for all its assignments: an
\* assignment to a further enclosure sets it to the days entered, whatever
\* it was, and keeps the enclosures held; a day-advance clears all of a
\* worker's assignments or none, all of them when 1 day or none was left;
\* so after a further assignment for 1 day the next day-advance clears the
\* earlier assignments too.
C34_SharedDuration ==
    /\ [][\A w \in 1..Len(workers) :
            (lastOp'.op = "assign" /\ Len(workers') = Len(workers) /\ workers'[w] # workers[w]) =>
               /\ lastOp'.in[1] = w
               /\ workers'[w].daysAssigned = lastOp'.in[3]
               /\ Range(workers'[w].assignedEnclosures) =
                    Range(workers[w].assignedEnclosures) \cup {lastOp'.in[2]}
         ]_vars
    /\ [][DayAdvance =>
            \A w \in 1..Len(workers) :
               /\ workers'[w].assignedEnclosures =
                    IF workers[w].daysAssigned <= 1 THEN <<>> ELSE workers[w].assignedEnclosures
               /\ (lastOp.op = "assign" /\ lastOp.in[1] = w /\ lastOp.in[3] = 1) =>
                    workers'[w].assignedEnclosures = <<>>
         ]_vars

\* A worker that held an enclosure with 2 days left has just been given a
\* second one for 1 day: it holds both with 1 day left.
C34_Witness ==
    /\ lastOp.op = "assign"
    /\ lastOp.was = 2
    /\ lastOp.in[3] = 1
    /\ Len(workers[lastOp.in[1]].assignedEnclosures) = 2
    /\ workers[lastOp.in[1]].daysAssigned = 1

\* C35: the assignments of the constructed zoo and those entered at a hiring
\* come with no days of assignment: a day-advance that finds a worker with
\* none clears its assignments, and heals nothing in the enclosures of such
\* a veterinarian; days of assignment come only from the assign action.
C35_HireAssignments ==
    /\ [](lastOp.op = "create" => \A w \in 1..Len(workers) : workers[w].daysAssigned = 0)
    /\ [][Len(workers') = Len(workers) + 1 =>
            /\ lastOp'.op = "hire"
            /\ workers'[Len(workers')].daysAssigned = 0
            /\ Range(workers'[Len(workers')].assignedEnclosures) \subseteq Range(lastOp'.in[2])
         ]_vars
    /\ [][\A w \in 1..Len(workers) :
            (Len(workers') = Len(workers) /\ workers'[w].daysAssigned > workers[w].daysAssigned)
               => (lastOp'.op = "assign" /\ lastOp'.in[1] = w)
         ]_vars
    /\ [][DayAdvance =>
            \A w \in 1..Len(workers) : workers[w].daysAssigned = 0 =>
               /\ workers'[w].assignedEnclosures = <<>>
               /\ workers'[w].daysAssigned = 0
               /\ workers[w].type = "VETERINARIAN" =>
                    \A j \in SickInOldCare(w) :
                       (\A v \in AtWork :
                          animals'[j].enclosureId \notin Range(workers'[v].assignedEnclosures))
                       => animals'[j].isSick
         ]_vars

\* Day 2: the first day-advance has cleared the assignments of the cleaner,
\* of the feeder and of a veterinarian hired onto the deer's enclosure, and
\* the deer that fell sick is sick.
C35_Witness ==
    /\ lastOp.op = "nextDay"
    /\ day = 2
    /\ Len(workers) = 5
    /\ workers[5].type = "VETERINARIAN"
    /\ {2, 4, 5} \subseteq Range(lastOp.cleared)
    /\ \E i \in 1..Len(animals) : animals[i].isSick /\ animals[i].enclosureId = 1

---------------------------------------------------------------------------
(* SpecIdle: the player does nothing but advance the day.  The market     *)
(* shuffle, the popularity drift and the special visitors vary; the drift *)
(* is drawn on the first days only, where hundredths of popularity are    *)
(* exact.  The game ends by itself, so the days need no bound.            *)

MaxIdleDriftDay == 2

\* One roll for each outcome of the special-visitor draw.
IdleRolls == {0, 20, 30}

InitIdle == Init(ShuffleId, SexAlternate)

NextIdle ==
    \E shuffle \in {ShuffleId, ShuffleRev}, offset \in VisitorOffsets :
    \E specialRoll \in IdleRolls :
    \E count \in SpecialCounts(specialRoll) :
      /\ day > MaxIdleDriftDay => offset = 0
      /\ NextDay(shuffle, SexAlternate, <<>>, <<>>, <<>>, offset, specialRoll, count)

\* The player keeps advancing the day for as long as the game lets them.
SpecIdle == InitIdle /\ [][NextIdle]_vars /\ WF_vars(NextIdle)

\* C36: with the starting staff, one empty enclosure and no animals, each
\* day-advance earns nothing and costs 190; with no other action cash is
\* 1488 - 190 per advance, stays non-negative through day 8, is negative
\* after the eighth advance (day 9), and the game is then lost, whatever the
\* random draws were; day 21 is never reached.
C36_IdleGame ==
    /\ [][DayAdvance => money' = money - 190 /\ visitors' * totalAnimals = 0]_vars
    /\ [](money = 1488 - 190 * (day - 1))
    /\ [](day <= 8 => money >= 0 /\ Playing)
    /\ [](day <= 9 /\ (day = 9 => money < 0 /\ phase = "lost"))
    /\ <>(phase = "lost" /\ day = 9)

C36_Witness ==
    /\ phase = "lost" /\ day = 9 /\ money = -32
    /\ popularity # 50 * PopScale
    /\ specialVisitorType # "None"
    /\ lastOp.op = "nextDay"

---------------------------------------------------------------------------
\* The age an animal had when it entered the zoo: 0 for a newborn, the
\* catalog age of its species for a purchase.
ArrivalAge(a) ==
    IF a.isBornInZoo THEN 0
    ELSE LET k == CHOOSE k \in 1..Len(Catalog) : Catalog[k].species = a.species
         IN Catalog[k].ageDays

\* The day-advances an animal needs in the zoo before its age exceeds 5.
WaitOf(a) == IF ArrivalAge(a) <= 5 THEN 6 - ArrivalAge(a) ELSE 0

\* C37: an animal is a breeding parent only once its age exceeds 5 days.  The
\* age is the arrival age plus the day-advances spent in the zoo, which only
\* a day-advance increases and by one, so a newborn has spent at least 6
\* day-advances in the zoo before it is a parent, and a purchase of catalog
\* age g <= 5 at least 6 - g.
C37_ParentAge ==
    /\ [](\A i \in 1..Len(animals) :
            animals[i].ageDays = ArrivalAge(animals[i]) + animals[i].daysSincePurchase)
    /\ [][\A i \in 1..Len(animals), j \in 1..Len(animals') :
            animals[i].uniqueId = animals'[j].uniqueId
            => animals'[j].daysSincePurchase
                 = animals[i].daysSincePurchase + (IF DayAdvance THEN 1 ELSE 0)]_vars
    /\ [][\A j \in 1..Len(animals') :
            (\A i \in 1..Len(animals) : animals[i].uniqueId # animals'[j].uniqueId)
            => animals'[j].daysSincePurchase = 0]_vars
    /\ [][Birth => \A p \in {lastOp'.in[1], lastOp'.in[2]} :
            /\ animals[p].ageDays > 5
            /\ animals[p].daysSincePurchase >= WaitOf(animals[p])]_vars

\* A hybrid born in the zoo has just become a parent, on the sixth day after
\* its own birth, together with a rabbit bought at the age of 3.
C37_Witness ==
    /\ lastOp.op = "breed"
    /\ lastOp.out = "born"
    /\ \E p \in {lastOp.in[1], lastOp.in[2]}, q \in {lastOp.in[1], lastOp.in[2]} :
         /\ animals[p].isBornInZoo
         /\ animals[p].daysSincePurchase = 6
         /\ animals[q].species = "Krolik"
         /\ WaitOf(animals[q]) = 3
    /\ animals[Len(animals)].ageDays = 0

---------------------------------------------------------------------------
(* SpecNursery: births under the limit on purchases.  The player borrows   *)
(* on day 1 and buys a male deer and a female rabbit; the days pass        *)
(* without deaths; on the breeding days any two animals are bred, and on   *)
(* day 11 one more animal is bought, which uses up the day's purchases.    *)

MaxDayNursery == 11

\* The days on which the player breeds: the last without the limit on
\* purchases and the first with it.
NurseryDays == {10, 11}

InitNursery == Init(ShuffleId, SexHalves)

NextNursery ==
    \/ day = 1 /\ loans = <<>> /\ Borrow(10000, 20)
    \/ \E i \in Wanted({"Olen'", "Krolik"}) :
         /\ day \in {1, MaxDayNursery}
         /\ day = 1 => loans # <<>>
         /\ Purchase(i, 1)
    \/ \E f \in 1..Len(animals), s \in 1..Len(animals), g \in 0..1 :
         day \in NurseryDays /\ Breed(f, s, g)
    \/ /\ day < MaxDayNursery
       /\ NextDay(ShuffleId, SexHalves, SameRoll(Len(animals), 99),
                  SameRoll(Len(animals), 99), SameRoll(Len(animals), 99), 0, 0, 0)

SpecNursery == InitNursery /\ [][NextNursery]_vars

\* Two animals that can breed now: distinct, in one enclosure that has room,
\* of opposite sexes, both older than 5 days.
Pair(f, s) ==
    /\ f # s
    /\ animals[f].enclosureId = animals[s].enclosureId
    /\ animals[f].gender # animals[s].gender
    /\ animals[f].ageDays > 5
    /\ animals[s].ageDays > 5
    /\ \E k \in 1..Len(enclosures) :
         /\ enclosures[k].id = animals[f].enclosureId
         /\ Len(enclosures[k].animals) < enclosures[k].capacity

---------------------------------------------------------------------------
(* SpecSale: sales of every kind of animal.  The player buys a male deer   *)
(* and a female rabbit, breeds them on the day the rabbit comes of age     *)
(* (the hybrid costs 125), buys again on the last day and sells any animal *)
(* at any time; on the last day-advance all animals fall sick or none.     *)

MaxDaySale == 5

\* The day on which the player breeds: the rabbit is 6 days old.
SaleBreedDay == 4

InitSale == Init(ShuffleId, SexHalves)

NextSale ==
    \/ \E i \in Wanted({"Olen'", "Krolik"}) : day \in {1, MaxDaySale} /\ Purchase(i, 1)
    \/ \E i \in 1..Len(animals) : Sell(i)
    \/ \E f \in 1..Len(animals), s \in 1..Len(animals) :
         day = SaleBreedDay /\ Births = 0 /\ Breed(f, s, 0)
    \/ \E sickRoll \in {SameRoll(Len(animals), 99), SameRoll(Len(animals), 0)} :
         /\ day < MaxDaySale
         /\ day < MaxDaySale - 1 => sickRoll = SameRoll(Len(animals), 99)
         /\ NextDay(ShuffleId, SexHalves, SameRoll(Len(animals), 99), sickRoll,
                    SameRoll(Len(animals), 99), 0, 0, 0)

SpecSale == InitSale /\ [][NextSale]_vars

\* The identities of the residents of every enclosure, in order.
Residents(encs) ==
    [k \in 1..Len(encs) |-> [n \in 1..Len(encs[k].animals) |-> encs[k].animals[n].uniqueId]]

\* The sequence s without its elements equal to x.
RECURSIVE Without(_, _)
Without(s, x) ==
    IF s = <<>> THEN <<>>
    ELSE (IF Head(s) = x THEN <<>> ELSE <<Head(s)>>) \o Without(Tail(s), x)

\* The step sells the animal at position i of the registry.
SaleOf(i) ==
    /\ money' = money + animals[i].price \div 2
    /\ Len(animals') = Len(animals) - 1
    /\ \A j \in 1..Len(animals') : animals'[j] = animals[IF j < i THEN j ELSE j + 1]
    /\ Residents(enclosures')
         = [k \in 1..Len(enclosures) |->
              IF enclosures[k].id = animals[i].enclosureId
              THEN Without(Residents(enclosures)[k], animals[i].uniqueId)
              ELSE Residents(enclosures)[k]]
    /\ Len(Residents(enclosures')[1]) = Len(Residents(enclosures)[1]) - 1
    /\ totalAnimals' = totalAnimals - 1
    /\ UNCHANGED <<marketAnimals, food, popularity, day, animalsBoughtToday>>

\* What the first day's cash has lost on one offer of the first market: nothing
\* while it is on offer, its price while the animal is kept, and its price
\* less half of it rounded down once the animal is bought and sold again.
SpentOn(t) ==
    IF \E i \in 1..Len(marketAnimals) : marketAnimals[i].species = t.species THEN 0
    ELSE IF \E i \in 1..Len(animals) : animals[i].species = t.species THEN t.price
    ELSE t.price - t.price \div 2

\* C39: while the game runs every animal of the registry can be sold, sick or
\* healthy and of any age; the sale credits half the animal's price rounded
\* down, removes that animal alone from the registry and from the residents
\* of its enclosure, lowers the animal counter by 1 and leaves the other
\* animals, the market, the food and the popularity as they were.  A purchase
\* debits the whole price, so buying and selling at once loses the price
\* less half of it rounded down.
C39_Sale ==
    /\ [](\A i \in 1..Len(animals) : Playing => ENABLED (Sell(i) /\ SaleOf(i)))
    /\ [][lastOp'.op = "sell" /\ Len(animals') < Len(animals) => SaleOf(lastOp'.in[1])]_vars
    /\ [][PurchaseStep => money' = money - animals'[Len(animals')].price]_vars
    /\ [](day = 1 => money = 1488 - SumSeq([k \in 1..Len(Catalog) |-> SpentOn(Catalog[k])]))

\* On the last day, when all animals had fallen sick and the cash was 919, the
\* hybrid of price 125 has just been sold for 62 while its sick parents stay.
C39_Witness ==
    /\ lastOp.op = "sell"
    /\ day = MaxDaySale
    /\ Births = 1
    /\ money = 919 + 62
    /\ Len(animals) >= 2
    /\ \A i \in 1..Len(animals) : animals[i].isSick /\ ~animals[i].isBornInZoo

---------------------------------------------------------------------------
(* SpecAds: advertising.  The player advertises for amounts on both sides  *)
(* of the multiples of 200, as often as the cash allows, and advances the  *)
(* day once; the popularity does not drift.                                *)

MaxDayAds == 2

\* The amounts the player enters: nothing, just below and at one and two
\* steps of 200, and more than the starting cash.
AdAmounts == {0, 199, 200, 399, 400, 1489}

InitAds == Init(ShuffleId, SexAlternate)

NextAds ==
    \/ \E a \in AdAmounts : Advertise(a)
    \/ /\ day < MaxDayAds
       /\ NextDay(ShuffleId, SexAlternate, <<>>, <<>>, <<>>, 0, 0, 0)

SpecAds == InitAds /\ [][NextAds]_vars

\* C40: an advertisement of m is accepted exactly when m is at most the cash;
\* it then debits the whole m and raises the popularity by 5 for every whole
\* 200 of m: an amount below 200 is debited without any gain, and what m
\* exceeds a multiple of 200 by buys nothing.
C40_Advertising ==
    /\ [](\A m \in AdAmounts :
            Playing =>
              IF m <= money
              THEN ENABLED (/\ Advertise(m)
                            /\ money' = money - m
                            /\ popularity' = popularity + 5 * (m \div 200) * PopScale
                            /\ lastOp'.in = <<m>>)
              ELSE ~ENABLED (Advertise(m) /\ vars' # vars))
    /\ [][lastOp'.op = "advertise" /\ vars' # vars
          => LET m == lastOp'.in[1] IN
             /\ m <= money
             /\ money' = money - m
             /\ popularity' - popularity = 5 * (m \div 200) * PopScale
             /\ popularity' - popularity = 5 * ((m - (m % 200)) \div 200) * PopScale
             /\ m < 200 => popularity' = popularity
             /\ UNCHANGED <<food, animals, enclosures, workers, loans, day, marketAnimals>>]_vars

\* 199 and then 399 have been spent on the first day: 598 are gone and the
\* popularity has risen by 5 only.
C40_Witness ==
    /\ lastOp.op = "advertise"
    /\ lastOp.in = <<399>>
    /\ day = 1
    /\ money = 1488 - 199 - 399
    /\ popularity = (50 + 5) * PopScale

=============================================================================
